---- MODULE Spec2Model ----
(***************************************************************************)
(* Publish orchestration engine of tk-multi-publish2: the publish tree,    *)
(* file and session collection (api/manager.py), the three execution       *)
(* phases driven through a task generator (api/manager.py) and the plugin  *)
(* wrappers and settings cache of processing/plugin.py, processing/        *)
(* setting.py.                                                             *)
(***************************************************************************)
EXTENDS Integers, Sequences, FiniteSets, TLC

(***************************************************************************)
(* Bounds of the model.                                                    *)
(***************************************************************************)
\* item objects that can be allocated over one behaviour of the tree
MaxItems == 3
\* top-level items one collector hook call creates at most
MaxTops == 2
\* paths handed to one collect_files call at most
MaxPaths == 2
\* tasks a caller-supplied task generator yields in one run at most
MaxYield == 2
\* tasks attached to the trees the default task generator is run on
MaxGenTasks == 2
\* tasks whose settings are initialised over one behaviour
MaxTasks == 2
\* frames of a file sequence
MaxFrames == 2
\* PublishedFile entities Shotgun holds at most
MaxPublishes == 2
\* times the children of one dict setting are built over one behaviour
MaxBuilds == 3
\* instances of the app configured for one context at most
MaxInstances == 3
\* task objects created over one behaviour at most
MaxTaskObjects == 12
\* the highest version number in a file name or of a publish
MaxVersion == 2
\* plugin instances constructed over one behaviour at most
MaxConstructed == 2

\* file paths the user can submit
Paths == {"p1", "p2"}
\* value of a property that is absent from item.properties
NoPath == "none"
\* None in the place of a value
NoneVal == <<>>
\* the sentinel root item of the tree; it is never iterated
Root == 0
\* the configured publish plugins, in configuration order
Plugins == <<"pa", "pb", "pc">>

\* the context an item is created in
DefaultContext == "c1"

\* PublishManager.load_publish_plugins(context): the publish plugins
\* configured for the context, in configured order
load_publish_plugins(context) ==
    IF context = DefaultContext THEN Plugins ELSE <<"pb", "pc">>

VARIABLES
    pt,         \* the publish tree and the item/task objects it owns
    fileHook,   \* what the configured collector hook creates for each path
    lastCall,   \* the last manager collection call and what it returned
    pc,         \* "idle", "loop" (inside _process_tasks) or "done"
    phase,      \* the phase of the current run: validate, publish, finalize
    gen,        \* the task generator of the current run
    cur,        \* `task` of _process_tasks: the task to process, or NoTask
    events,     \* what the current run did so far, in order
    failed,     \* failed_to_validate of the current validate() call
    result,     \* how the current run ended
    history,    \* per task followed: what its hooks did in the runs so far
    heap,       \* the settings objects allocated so far, by object id
    cache,      \* settings_cache._cache of one plugin: context -> object id
    taskSettings, \* the tasks created so far: context, item type, settings
    held,       \* what the last direct call of settings_cache.get
                \* returned, <<>> before the first
    builds,     \* context -> the calls of build_settings_dict so far and
                \* how many of them returned
    schemaEmpty, \* the hook of the plugin declares no settings
    disk,       \* the files on disk
    shotgun,    \* the PublishedFile entities of Shotgun and the next entity id
    props,      \* item.properties of the item handed to the publish hooks
    hookOut,    \* the last call of a publish hook and how it ended
    dictSetting, \* one DictPluginSetting: its schema, value and children
    setOut,     \* the last assignment to dictSetting.value and how it ended
    lookup,     \* the last resolution of the app settings of a context
    ctxOut,     \* the last call of a collector wrapper and the calls of
                \* on_context_changed made during it
    world,      \* what a helper of the hooks works on: items and their
                \* fields, the publishes in Shotgun, the files on disk
    answer      \* the last call of a helper and how it ended

collectVars == <<pt, fileHook, lastCall>>
phaseVars == <<pc, phase, gen, cur, events, failed, result, history>>
settingsVars == <<heap, cache, taskSettings, held, builds, schemaEmpty>>
hookVars == <<disk, shotgun, props, hookOut>>
apiVars == <<dictSetting, setOut, lookup, ctxOut>>
utilVars == <<world, answer>>
vars == <<pt, fileHook, lastCall, pc, phase, gen, cur, events, failed, result,
          history, heap, cache, taskSettings, held, builds, schemaEmpty,
          disk, shotgun, props, hookOut,
          dictSetting, setOut, lookup, ctxOut, world, answer>>

(***************************************************************************)
(* Helpers on sets and sequences.                                          *)
(***************************************************************************)
Range(s) == {s[k] : k \in 1..Len(s)}

Min(S) == CHOOSE x \in S : \A y \in S : x <= y

RECURSIVE SetToSeq(_)
\* the elements of a finite set of integers, ascending
SetToSeq(S) == IF S = {} THEN <<>> ELSE <<Min(S)>> \o SetToSeq(S \ {Min(S)})

IsPrefix(s, t) == Len(s) <= Len(t) /\ SubSeq(t, 1, Len(s)) = s

NoDuplicates(s) == \A a, b \in 1..Len(s) : a # b => s[a] # s[b]

(***************************************************************************)
(* PublishTree / PublishItem.  A tree state S is a record:                 *)
(*   items      the items attached to the tree (the root excluded)         *)
(*   parent     item -> its parent item (Root for a top-level item); this  *)
(*              and the next three are indexed by the items created so far *)
(*   persistent item -> the persistent flag                                *)
(*   path       item -> properties["__collected_file_path__"], or NoPath   *)
(*   active     item -> the active (checked) flag                          *)
(*   context    item -> the context of the item                            *)
(*   tasks      item -> the attached tasks, in attached order; a task is   *)
(*              [id, plugin, active]                                       *)
(*   nextItem, nextTask   the next fresh object identities                 *)
(* Item and task identities are never reused: an identity stands for a     *)
(* Python object.                                                          *)
(***************************************************************************)
EmptyTree ==
    [items |-> {},
     parent |-> <<>>,
     persistent |-> <<>>,
     path |-> <<>>,
     active |-> <<>>,
     context |-> <<>>,
     tasks |-> <<>>,
     nextItem |-> 1,
     nextTask |-> 1,
     log |-> <<>>]

\* item.children, in creation order (create_item appends)
Children(S, p) == SetToSeq({i \in S.items : S.parent[i] = p})

RECURSIVE Subtree(_, _)
\* an item and all its descendants
Subtree(S, i) ==
    {i} \cup UNION {Subtree(S, c) : c \in {j \in S.items : S.parent[j] = i}}

RECURSIVE FlattenFrom(_, _)
\* pre-order flattening of the items below the items of the sequence `its`
FlattenFrom(S, its) ==
    IF its = <<>> THEN <<>>
    ELSE <<Head(its)>> \o FlattenFrom(S, Children(S, Head(its)))
                       \o FlattenFrom(S, Tail(its))

\* list(tree): every item below the root, parents first
TreeIter(S) == FlattenFrom(S, Children(S, Root))

\* tree.persistent_items: the top-level items flagged persistent
persistent_items(S) ==
    {i \in S.items : S.parent[i] = Root /\ S.persistent[i]}

\* parent.create_item(...): a fresh item appended to the parent's children
create_item(S, p) ==
    [S EXCEPT !.items = @ \cup {S.nextItem},
              !.parent = Append(@, p),
              !.persistent = Append(@, FALSE),
              !.path = Append(@, NoPath),
              !.active = Append(@, TRUE),
              !.context = Append(@, DefaultContext),
              !.tasks = Append(@, <<>>),
              !.nextItem = @ + 1]

\* tree.clear(clear_persistent): drops the subtree of every top-level item
\* that is not persistent (or of every top-level item)
clear(S, clear_persistent) ==
    LET gone == UNION {Subtree(S, i) :
                    i \in {j \in S.items : S.parent[j] = Root
                              /\ (clear_persistent \/ ~S.persistent[j])}}
    IN [S EXCEPT !.items = @ \ gone]

(***************************************************************************)
(* The collector hook.  A hook call creates `tops` top-level items under   *)
(* the parent item it is handed and, when `nested`, one child under the    *)
(* first of them; when `raises`, it then raises an exception.              *)
(* S.log is what the logger received as errors during the manager call     *)
(* under way; it is empty between calls.                                   *)
(***************************************************************************)
Shapes == {sh \in [tops : 0..MaxTops, nested : BOOLEAN, raises : BOOLEAN] :
              sh.nested => sh.tops > 0}

\* the hooks that return normally
OkShapes == {sh \in Shapes : ~sh.raises}

\* the hook that creates nothing
NoItems == [tops |-> 0, nested |-> FALSE, raises |-> FALSE]

\* self._logger.error(...): the wrapper `who` logs the error it caught
\* while working on `what`
LogError(S, who, what) == [S EXCEPT !.log = Append(@, <<who, what>>)]

RECURSIVE CreateTops(_, _, _)
CreateTops(S, p, n) ==
    IF n = 0 THEN S ELSE CreateTops(create_item(S, p), p, n - 1)

\* the items a hook call of shape sh creates under parent item p
HookCreates(S, p, sh) ==
    IF sh.tops = 0 THEN S
    ELSE LET first == S.nextItem
             S1 == create_item(S, p)
             S2 == IF sh.nested THEN create_item(S1, first) ELSE S1
         IN CreateTops(S2, p, sh.tops - 1)

\* a wrapper without the `except Exception` clause: for comparison with
\* run_process_file
run_process_file_no_except(S, p, path) ==
    [S |-> HookCreates(S, p, fileHook[path]),
     ret |-> IF fileHook[path].raises THEN NoneVal ELSE <<"hook result">>,
     raised |-> fileHook[path].raises]

\* CollectorPluginInstance.run_process_file: [S: the tree and the log
\* afterwards, ret: the value returned, raised: an exception leaves the
\* wrapper]
run_process_file(S, p, path) ==
    LET S1 == HookCreates(S, p, fileHook[path])
    IN IF fileHook[path].raises
       THEN [S |-> LogError(S1, "run_process_file", path),
             ret |-> NoneVal, raised |-> FALSE]
       ELSE [S |-> S1, ret |-> <<"hook result">>, raised |-> FALSE]

\* CollectorPluginInstance.run_process_current_session
run_process_current_session(S, p, sh) ==
    LET S1 == HookCreates(S, p, sh)
    IN IF sh.raises
       THEN [S |-> LogError(S1, "run_process_current_session", "session"),
             ret |-> NoneVal, raised |-> FALSE]
       ELSE [S |-> S1, ret |-> <<"hook result">>, raised |-> FALSE]

(***************************************************************************)
(* Tasks.  item.refresh_tasks drops the item's tasks and attaches a fresh  *)
(* task for every configured plugin that accepts the item.  The accept    *)
(* hook of plugin "pa" accepts every item, that of "pb" the top-level      *)
(* items, and that of "pc" raises on every item.                           *)
(***************************************************************************)
\* how the accept hook of the plugin ends for the item
AcceptHook(S, plugin, i) ==
    IF plugin = "pc" THEN "raise"
    ELSE IF plugin = "pa" \/ S.parent[i] = Root THEN "accept"
    ELSE "reject"

\* a wrapper whose error path returns an accepting answer: for comparison
\* with run_accept
run_accept_accepts_on_error(S, plugin, i) ==
    LET out == AcceptHook(S, plugin, i)
    IN IF out = "raise"
       THEN [S |-> LogError(S, "run_accept", <<plugin, i>>),
             ret |-> [accepted |-> TRUE], raised |-> FALSE]
       ELSE [S |-> S, ret |-> [accepted |-> out = "accept"], raised |-> FALSE]

\* PublishPlugin.run_accept: [S: the log afterwards, ret: the dictionary
\* returned, raised: an exception leaves the wrapper]
run_accept(S, plugin, i) ==
    LET out == AcceptHook(S, plugin, i)
    IN IF out = "raise"
       THEN [S |-> LogError(S, "run_accept", <<plugin, i>>),
             ret |-> [accepted |-> FALSE], raised |-> FALSE]
       ELSE [S |-> S, ret |-> [accepted |-> out = "accept"], raised |-> FALSE]

RECURSIVE NewTasks(_, _, _, _)
\* the tasks of item i for the plugins of its context from the k-th on,
\* with identities from n on, and the log of their accept calls: [S, tasks]
NewTasks(S, i, k, n) ==
    LET plugins == load_publish_plugins(S.context[i])
    IN IF k > Len(plugins) THEN [S |-> S, tasks |-> <<>>]
       ELSE LET a == run_accept(S, plugins[k], i)
            IN IF a.ret.accepted
               THEN LET rest == NewTasks(a.S, i, k + 1, n + 1)
                    IN [S |-> rest.S,
                        tasks |-> <<[id |-> n, plugin |-> plugins[k], active |-> TRUE]>>
                                     \o rest.tasks]
               ELSE NewTasks(a.S, i, k + 1, n)

\* item.refresh_tasks(item.context, manager)
refresh_tasks(S, i) ==
    LET r == NewTasks(S, i, 1, S.nextTask)
    IN [r.S EXCEPT !.tasks[i] = r.tasks, !.nextTask = @ + Len(r.tasks)]

RECURSIVE AttachSeq(_, _)
AttachSeq(S, its) ==
    IF its = <<>> THEN S ELSE AttachSeq(refresh_tasks(S, Head(its)), Tail(its))

\* an attachment that refreshes every item of the tree: for comparison
\* with _attach_plugins
_attach_plugins_whole_tree(S, its) == AttachSeq(S, SetToSeq(S.items))

\* PublishManager._attach_plugins(items)
_attach_plugins(S, its) == AttachSeq(S, SetToSeq(its))

(***************************************************************************)
(* PublishManager collection.                                              *)
(***************************************************************************)
\* a lookup that never recognises a path: for comparison with
\* _path_already_collected
_path_never_collected(S, file_path) == FALSE

\* PublishManager._path_already_collected
_path_already_collected(S, file_path) ==
    \E i \in persistent_items(S) :
        S.path[i] # NoPath /\ S.path[i] = file_path

\* PublishManager.collected_files
collected_files(S) ==
    {S.path[i] : i \in {j \in persistent_items(S) : S.path[j] # NoPath}}

\* a marking loop without the test `file_item.parent == root`: for
\* comparison with MarkNew
MarkNewAllPersistent(S, new, file_path) ==
    [S EXCEPT !.persistent = [i \in DOMAIN S.persistent |->
                                 IF i \in new THEN TRUE ELSE @[i]],
              !.path = [i \in DOMAIN S.path |->
                           IF i \in new THEN file_path ELSE @[i]]]

\* the marking loop of collect_files over the new items of one path
MarkNew(S, new, file_path) ==
    [S EXCEPT !.persistent = [i \in DOMAIN S.persistent |->
                  IF i \in new /\ S.parent[i] = Root THEN TRUE ELSE @[i]],
              !.path = [i \in DOMAIN S.path |->
                  IF i \in new THEN file_path ELSE @[i]]]

\* an iteration whose snapshots hold the top-level items only: for
\* comparison with CollectOnePath
CollectOnePathTopsOnly(S, file_path) ==
    LET tops(T) == {i \in T.items : T.parent[i] = Root}
        w == IF _path_already_collected(S, file_path)
             THEN [S |-> S, ret |-> NoneVal, raised |-> FALSE]
             ELSE run_process_file(S, Root, file_path)
        new_file_items == tops(w.S) \ tops(S)
    IN IF w.raised THEN [S |-> w.S, new |-> <<>>, raised |-> TRUE]
       ELSE IF new_file_items = {} THEN [S |-> w.S, new |-> <<>>, raised |-> FALSE]
       ELSE [S |-> _attach_plugins(MarkNew(w.S, new_file_items, file_path),
                                   new_file_items),
             new |-> SetToSeq(new_file_items), raised |-> FALSE]

\* an iteration that gives up a path whose hook failed, leaving the items
\* created before the error unmarked, without tasks and unreported: for
\* comparison with CollectOnePath
CollectOnePathDropsFailed(S, file_path) ==
    LET items_before == Range(TreeIter(S))
        collected == _path_already_collected(S, file_path)
        w == IF collected
             THEN [S |-> S, ret |-> NoneVal, raised |-> FALSE]
             ELSE run_process_file(S, Root, file_path)
        new_file_items == Range(TreeIter(w.S)) \ items_before
    IN IF w.raised THEN [S |-> w.S, new |-> <<>>, raised |-> TRUE]
       ELSE IF new_file_items = {} \/ (~collected /\ fileHook[file_path].raises)
       THEN [S |-> w.S, new |-> <<>>, raised |-> FALSE]
       ELSE [S |-> _attach_plugins(MarkNew(w.S, new_file_items, file_path),
                                   new_file_items),
             new |-> SetToSeq(new_file_items), raised |-> FALSE]

\* one iteration of the loop of collect_files: the tree afterwards and the
\* items of new_file_items
\* raised: an exception leaves the loop body
CollectOnePath(S, file_path) ==
    LET items_before == Range(TreeIter(S))
        w == IF _path_already_collected(S, file_path)
             THEN [S |-> S, ret |-> NoneVal, raised |-> FALSE]
             ELSE run_process_file(S, Root, file_path)
        S1 == w.S
        items_after == Range(TreeIter(S1))
        new_file_items == items_after \ items_before
    IN IF w.raised THEN [S |-> S1, new |-> <<>>, raised |-> TRUE]
       ELSE IF new_file_items = {} THEN [S |-> S1, new |-> <<>>, raised |-> FALSE]
       ELSE [S |-> _attach_plugins(MarkNew(S1, new_file_items, file_path),
                                   new_file_items),
             new |-> SetToSeq(new_file_items), raised |-> FALSE]

RECURSIVE collect_files(_, _)
\* PublishManager.collect_files(file_paths): [S: the tree, new: new_items,
\* raised: an exception reaches the caller, and nothing is returned]
collect_files(S, file_paths) ==
    IF file_paths = <<>> THEN [S |-> S, new |-> <<>>, raised |-> FALSE]
    ELSE LET one == CollectOnePath(S, Head(file_paths))
             rest == collect_files(one.S, Tail(file_paths))
         IN IF one.raised THEN [S |-> one.S, new |-> <<>>, raised |-> TRUE]
            ELSE IF rest.raised THEN rest
            ELSE [S |-> rest.S, new |-> one.new \o rest.new, raised |-> FALSE]

\* a session collection that clears persistent items too: for comparison
\* with collect_session
collect_session_clear_all(S, sh) ==
    LET S0 == clear(S, TRUE)
        S1 == run_process_current_session(S0, Root, sh).S
        new_items == Range(TreeIter(S1)) \ Range(TreeIter(S0))
    IN IF new_items # {}
       THEN [S |-> _attach_plugins(S1, new_items), new |-> SetToSeq(new_items),
             raised |-> FALSE]
       ELSE [S |-> S1, new |-> <<>>, raised |-> FALSE]

\* PublishManager.collect_session(), the session hook creating shape sh
collect_session(S, sh) ==
    LET S0 == clear(S, FALSE)
        items_before == Range(TreeIter(S0))
        w == run_process_current_session(S0, Root, sh)
        S1 == w.S
        items_after == Range(TreeIter(S1))
        new_items == items_after \ items_before
    IN IF w.raised THEN [S |-> S1, new |-> <<>>, raised |-> TRUE]
       ELSE IF new_items # {}
       THEN [S |-> _attach_plugins(S1, new_items), new |-> SetToSeq(new_items),
             raised |-> FALSE]
       ELSE [S |-> S1, new |-> <<>>, raised |-> FALSE]

\* the objects an operation may allocate stay within the bound
Fits(S) == S.nextItem <= MaxItems + 1

\* the items a hook call of shape sh creates
ShapeItemCount(sh) == sh.tops + (IF sh.nested THEN 1 ELSE 0)

\* the same bound, from the number of items the hooks of the call create:
\* every path of the list that is not collected yet has its hook run
FitsCount(n) == pt.nextItem + n <= MaxItems + 1

RECURSIVE SumOver(_, _)
SumOver(P, S) ==
    IF P = {} THEN 0
    ELSE LET p == CHOOSE x \in P : TRUE
         IN (IF _path_already_collected(S, p) THEN 0
             ELSE ShapeItemCount(fileHook[p])) + SumOver(P \ {p}, S)

PathLists == UNION {[1..n -> Paths] : n \in 1..MaxPaths}

\* the record of the last call: its arguments, its result (new: the list
\* returned, raised: an exception reached the caller), the items it removed
\* from the tree, and the errors logged during it
NoCall == [op |-> "none", paths |-> <<>>, new |-> <<>>, gone |-> {},
           raised |-> FALSE, log |-> <<>>]

\* the logger's records of a finished call are not part of the tree
Quiet(S) == [S EXCEPT !.log = <<>>]

InitCollectVars ==
    /\ pt = EmptyTree
    /\ fileHook \in [Paths -> OkShapes]
    /\ lastCall = NoCall

CollectFiles(file_paths) ==
    /\ FitsCount(SumOver(Range(file_paths), pt))
    /\ \E r \in {collect_files(pt, file_paths)} :
       /\ Fits(r.S)
       /\ pt' = Quiet(r.S)
       /\ lastCall' = [op |-> "collect_files", paths |-> file_paths,
                       new |-> r.new, gone |-> pt.items \ r.S.items,
                       raised |-> r.raised, log |-> r.S.log]
       /\ UNCHANGED <<fileHook, phaseVars, utilVars, settingsVars, hookVars, apiVars>>

CollectSession(sh) ==
    /\ FitsCount(ShapeItemCount(sh))
    /\ \E r \in {collect_session(pt, sh)} :
       /\ Fits(r.S)
       /\ pt' = Quiet(r.S)
       /\ lastCall' = [op |-> "collect_session", paths |-> <<>>,
                       new |-> r.new, gone |-> pt.items \ r.S.items,
                       raised |-> r.raised, log |-> r.S.log]
       /\ UNCHANGED <<fileHook, phaseVars, utilVars, settingsVars, hookVars, apiVars>>


(***************************************************************************)
(* Execution phases.  Values handed around by the run:                     *)
(*   NoTask      None in the place of a task                               *)
(*   NoneVal     None in the place of a value                              *)
(*   Exc(t)      the exception object the hook of task t raises            *)
(* An event is [e, task, val]:                                             *)
(*   "next"  the first generator.next(); task is what it yields            *)
(*   "call"  task_cb(task): the phase method of the task is invoked        *)
(*   "hook"  the hook method is invoked; val is how it ends                *)
(*   "log"   an error-level log record; val is the exception logged by     *)
(*           _handle_plugin_error, or the message                          *)
(*   "processEvents"  QCoreApplication.processEvents()                     *)
(*   "send"  generator.send(val); task is what the generator yields        *)
(*   "post"  the post-phase hook is invoked with the tree                  *)
(***************************************************************************)
NoTask == 0
Exc(t) == <<"exc", t>>
Ev(e, t, v) == [e |-> e, task |-> t, val |-> v]

Phases == {"validate", "publish", "finalize"}

\* the ids of the tasks attached to the items of the tree
TaskIds(S) ==
    UNION {{S.tasks[i][k].id : k \in 1..Len(S.tasks[i])} : i \in S.items}

(***************************************************************************)
(* processing/plugin.py: the wrappers around the hook.  `out` is how the   *)
(* hook method ends: "true" or "false" (what it returns) or "raise".       *)
(* Each wrapper yields [raised, exc, value, ev].                           *)
(***************************************************************************)
\* an error scope that logs the exception and does not re-raise it: for
\* comparison with _handle_plugin_error
_handle_plugin_error_swallows(t, out) ==
    IF out = "raise"
    THEN [raised |-> FALSE, exc |-> NoneVal,
          ev |-> <<Ev("log", t, Exc(t)), Ev("processEvents", t, NoneVal)>>]
    ELSE [raised |-> FALSE, exc |-> NoneVal,
          ev |-> <<Ev("processEvents", t, NoneVal)>>]

\* PublishPlugin._handle_plugin_error: the scope around one hook call
_handle_plugin_error(t, out) ==
    IF out = "raise"
    THEN [raised |-> TRUE, exc |-> Exc(t),
          ev |-> <<Ev("log", t, Exc(t)), Ev("processEvents", t, NoneVal)>>]
    ELSE [raised |-> FALSE, exc |-> NoneVal,
          ev |-> <<Ev("processEvents", t, NoneVal)>>]

\* PublishPlugin.run_validate; linked: item.context.task is not None
run_validate(t, linked, out) ==
    IF ~linked
    THEN [raised |-> FALSE, exc |-> NoneVal, value |-> FALSE,
          ev |-> <<Ev("log", t, <<"link">>), Ev("log", t, <<"failed">>)>>]
    ELSE LET h == _handle_plugin_error(t, out)
             status == ~h.raised /\ out = "true"
         IN IF h.raised
            THEN [raised |-> TRUE, exc |-> h.exc, value |-> FALSE,
                  ev |-> <<Ev("hook", t, <<out>>)>> \o h.ev]
            ELSE [raised |-> FALSE, exc |-> NoneVal, value |-> status,
                  ev |-> <<Ev("hook", t, <<out>>)>> \o h.ev
                         \o IF status THEN <<>> ELSE <<Ev("log", t, <<"failed">>)>>]

\* PublishPlugin.run_publish
run_publish(t, out) ==
    LET h == _handle_plugin_error(t, out)
    IN [raised |-> h.raised, exc |-> h.exc, value |-> NoneVal,
        ev |-> <<Ev("hook", t, <<out>>)>> \o h.ev]

\* PublishPlugin.run_finalize
run_finalize(t, out) ==
    LET h == _handle_plugin_error(t, out)
    IN [raised |-> h.raised, exc |-> h.exc, value |-> NoneVal,
        ev |-> <<Ev("hook", t, <<out>>)>> \o h.ev]

\* PublishTask.validate / publish / finalize: the task hands its settings
\* and its item to the wrapper of its plugin
task_validate(t, linked, out) == run_validate(t, linked, out)
task_publish(t, out) == run_publish(t, out)
task_finalize(t, out) == run_finalize(t, out)

(***************************************************************************)
(* api/manager.py: the task callbacks.  Each yields                        *)
(* [raised, exc, ret, ev, failed]: ret is the callback's return value and  *)
(* failed what it appends to failed_to_validate.                           *)
(***************************************************************************)
\* a validate callback without the try/except: for comparison with
\* validate_task_cb
validate_task_cb_no_except(t, linked, out) ==
    LET r == task_validate(t, linked, out)
    IN [raised |-> r.raised, exc |-> r.exc,
        ret |-> <<r.value, NoneVal>>,
        ev |-> <<Ev("call", t, <<"validate">>)>> \o r.ev,
        failed |-> IF ~r.value THEN <<<<t, NoneVal>>>> ELSE <<>>]

\* a validate callback that returns is_valid alone: for comparison with
\* validate_task_cb
validate_task_cb_status_only(t, linked, out) ==
    LET r == task_validate(t, linked, out)
        is_valid == IF r.raised THEN FALSE ELSE r.value
        error == IF r.raised THEN r.exc ELSE NoneVal
    IN [raised |-> FALSE, exc |-> NoneVal,
        ret |-> <<is_valid>>,
        ev |-> <<Ev("call", t, <<"validate">>)>> \o r.ev,
        failed |-> IF ~is_valid THEN <<<<t, error>>>> ELSE <<>>]

\* task_cb of PublishManager.validate
validate_task_cb(t, linked, out) ==
    LET r == task_validate(t, linked, out)
        is_valid == IF r.raised THEN FALSE ELSE r.value
        error == IF r.raised THEN r.exc ELSE NoneVal
    IN [raised |-> FALSE, exc |-> NoneVal, ret |-> <<is_valid, error>>,
        ev |-> <<Ev("call", t, <<"validate">>)>> \o r.ev,
        failed |-> IF ~is_valid THEN <<<<t, error>>>> ELSE <<>>]

\* a publish callback that catches the exception of the task: for
\* comparison with publish_task_cb
publish_task_cb_catches(t, out) ==
    LET r == task_publish(t, out)
    IN [raised |-> FALSE, exc |-> NoneVal, ret |-> r.value,
        ev |-> <<Ev("call", t, <<"publish">>)>> \o r.ev,
        failed |-> <<>>]

\* lambda task: task.publish()
publish_task_cb(t, out) ==
    LET r == task_publish(t, out)
    IN [raised |-> r.raised, exc |-> r.exc, ret |-> r.value,
        ev |-> <<Ev("call", t, <<"publish">>)>> \o r.ev, failed |-> <<>>]

\* lambda task: task.finalize()
finalize_task_cb(t, out) ==
    LET r == task_finalize(t, out)
    IN [raised |-> r.raised, exc |-> r.exc, ret |-> r.value,
        ev |-> <<Ev("call", t, <<"finalize">>)>> \o r.ev, failed |-> <<>>]

\* callbacks that skip a task out of its lifecycle, publish without an
\* earlier successful validate and finalize without an earlier publish: for
\* comparison with task_cb
task_cb_lifecycle(ph, t, linked, out) ==
    IF \/ ph = "publish" /\ ~history[t].valid
       \/ ph = "finalize" /\ ~history[t].published
    THEN [raised |-> FALSE, exc |-> NoneVal, ret |-> NoneVal, ev |-> <<>>,
          failed |-> <<>>]
    ELSE IF ph = "validate" THEN validate_task_cb(t, linked, out)
    ELSE IF ph = "publish" THEN publish_task_cb(t, out)
    ELSE finalize_task_cb(t, out)

\* the callback validate / publish / finalize hand to _process_tasks
task_cb(ph, t, linked, out) ==
    IF ph = "validate" THEN validate_task_cb(t, linked, out)
    ELSE IF ph = "publish" THEN publish_task_cb(t, out)
    ELSE finalize_task_cb(t, out)

\* every phase calling post_validate: for comparison with PostHook
PostHookOfValidate(ph) == "post_validate"

\* the post-phase hook method validate / publish / finalize call
PostHook(ph) ==
    IF ph = "validate" THEN "post_validate"
    ELSE IF ph = "publish" THEN "post_publish" ELSE "post_finalize"

(***************************************************************************)
(* Task generators.  A generator is [kind, ii, ti, n]: for the default     *)
(* generator (ii, ti) is the item of list(tree) and the task of            *)
(* item.tasks it is suspended at; n counts the tasks yielded.              *)
(***************************************************************************)
Exhausted == [ii |-> 0, ti |-> 0]

RECURSIVE GenScanAllItems(_, _, _)
\* a generator without the test `if not item.active`: for comparison with
\* GenScan
GenScanAllItems(S, ii, ti) ==
    LET its == TreeIter(S)
    IN IF ii > Len(its) THEN Exhausted
       ELSE IF S.tasks[its[ii]] = <<>> THEN GenScanAllItems(S, ii + 1, 1)
       ELSE IF ti > Len(S.tasks[its[ii]]) THEN GenScanAllItems(S, ii + 1, 1)
       ELSE IF ~S.tasks[its[ii]][ti].active THEN GenScanAllItems(S, ii, ti + 1)
       ELSE [ii |-> ii, ti |-> ti]

RECURSIVE GenScan(_, _, _)
\* PublishManager._task_generator resumed at task ti of item ii of the
\* iteration: where it yields next, or Exhausted
GenScan(S, ii, ti) ==
    LET its == TreeIter(S)
    IN IF ii > Len(its) THEN Exhausted
       ELSE IF ~S.active[its[ii]] THEN GenScan(S, ii + 1, 1)
       ELSE IF S.tasks[its[ii]] = <<>> THEN GenScan(S, ii + 1, 1)
       ELSE IF ti > Len(S.tasks[its[ii]]) THEN GenScan(S, ii + 1, 1)
       ELSE IF ~S.tasks[its[ii]][ti].active THEN GenScan(S, ii, ti + 1)
       ELSE [ii |-> ii, ti |-> ti]

\* what the default generator does when resumed from g (first: by next())
DefaultResume(S, g, first) ==
    LET pos == IF first THEN GenScan(S, 1, 1) ELSE GenScan(S, g.ii, g.ti + 1)
    IN IF pos = Exhausted
       THEN [g |-> [g EXCEPT !.ii = 0, !.ti = 0], task |-> NoTask]
       ELSE [g |-> [g EXCEPT !.ii = pos.ii, !.ti = pos.ti, !.n = @ + 1],
             task |-> S.tasks[TreeIter(S)[pos.ii]][pos.ti].id]

\* what a caller-supplied generator may do when resumed: stop (or yield a
\* false value), or yield any task, in any order
CustomResume(S, g) ==
    {[g |-> g, task |-> NoTask]}
    \cup {[g |-> [g EXCEPT !.n = @ + 1], task |-> t] :
             t \in IF g.n < MaxYield THEN TaskIds(S) ELSE {}}

Resume(S, g, first) ==
    IF g.kind = "default" THEN {DefaultResume(S, g, first)} ELSE CustomResume(S, g)

NoResult == [kind |-> "none", val |-> NoneVal]

\* no call of validate, publish or finalize made yet
InitRun ==
    /\ pc = "idle"
    /\ phase = "none"
    /\ gen = [kind |-> "default", ii |-> 0, ti |-> 0, n |-> 0]
    /\ cur = NoTask
    /\ events = <<>>
    /\ failed = <<>>
    /\ result = NoResult

\* no task is followed across the runs
InitPhaseVars == InitRun /\ history = <<>>

\* a task no hook has run on yet
Unvalidated == [valid |-> FALSE, published |-> FALSE, failed |-> FALSE,
                revalidated |-> FALSE]

\* what the hooks did to the tasks followed, after the callback of phase ph
\* on task t ended as r: `valid` once a validate of the task succeeded,
\* `published` once a publish of it completed, `failed` once one of its
\* hooks failed or raised, `revalidated` once a validate of it succeeded
\* after that
Track(h, ph, t, r) ==
    [u \in DOMAIN h |->
        IF u # t THEN h[u]
        ELSE IF ph = "validate"
             THEN IF r.ret[1]
                  THEN [h[u] EXCEPT !.valid = TRUE, !.revalidated = @ \/ h[u].failed]
                  ELSE [h[u] EXCEPT !.failed = TRUE]
        ELSE IF r.raised THEN [h[u] EXCEPT !.failed = TRUE]
        ELSE IF ph = "publish" THEN [h[u] EXCEPT !.published = TRUE]
        ELSE h[u]]

\* validate / publish / finalize is called: _process_tasks gets the first
\* task of the generator
StartPhase(ph, kind) ==
    /\ pc \in {"idle", "done"}
    /\ \E r \in Resume(pt, [kind |-> kind, ii |-> 0, ti |-> 0, n |-> 0], TRUE) :
          /\ gen' = r.g
          /\ cur' = r.task
          /\ events' = <<Ev("next", r.task, NoneVal)>>
    /\ pc' = "loop"
    /\ phase' = ph
    /\ failed' = <<>>
    /\ result' = NoResult
    /\ UNCHANGED <<history, collectVars, utilVars, settingsVars, hookVars, apiVars>>

\* one iteration of the loop of _process_tasks: the callback on the current
\* task, then its return value is sent to the generator
ProcessTask(linked, out) ==
    /\ pc = "loop"
    /\ cur # NoTask
    /\ phase = "validate" \/ (linked /\ out # "false")
    /\ \E r \in {task_cb(phase, cur, linked, out)} :
          /\ history' = Track(history, phase, cur, r)
          /\ IF r.raised
             THEN /\ pc' = "done"
                  /\ result' = [kind |-> "raised", val |-> r.exc]
                  /\ events' = events \o r.ev
                  /\ UNCHANGED <<gen, cur, failed>>
             ELSE /\ \E y \in Resume(pt, gen, FALSE) :
                        /\ gen' = y.g
                        /\ cur' = y.task
                        /\ events' = events \o r.ev \o <<Ev("send", y.task, r.ret)>>
                  /\ failed' = failed \o r.failed
                  /\ UNCHANGED <<pc, result>>
    /\ UNCHANGED <<phase, collectVars, utilVars, settingsVars, hookVars, apiVars>>

\* an end of the loop that returns without the post-phase hook: for
\* comparison with FinishPhase
FinishPhaseNoPostHook ==
    /\ pc = "loop"
    /\ cur = NoTask
    /\ pc' = "done"
    /\ result' = [kind |-> "returned",
                  val |-> IF phase = "validate" THEN failed ELSE NoneVal]
    /\ UNCHANGED <<phase, gen, cur, events, failed, history, collectVars, utilVars,
                   settingsVars, hookVars, apiVars>>

\* the generator gave no further task: the post-phase hook runs and the
\* call returns
FinishPhase ==
    /\ pc = "loop"
    /\ cur = NoTask
    /\ pc' = "done"
    /\ events' = Append(events, Ev("post", NoTask, <<PostHook(phase)>>))
    /\ result' = [kind |-> "returned",
                  val |-> IF phase = "validate" THEN failed ELSE NoneVal]
    /\ UNCHANGED <<phase, gen, cur, failed, history, collectVars, utilVars, settingsVars, hookVars, apiVars>>

HookOutcomes == {"true", "false", "raise"}
GenKinds == {"default", "custom"}

\* the tree the phases are run on: two top-level items, the first with a
\* child, and the tasks _attach_plugins gives them
PhaseTree ==
    LET S == HookCreates(EmptyTree, Root,
                         [tops |-> 2, nested |-> TRUE, raises |-> FALSE])
    IN Quiet(_attach_plugins(S, S.items))

(***************************************************************************)
(* Task settings.  Settings are objects on a heap, so that a copy and an   *)
(* alias differ: heap[id] is the object with identity id.                  *)
(*   kind "settings"  the settings dict of a plugin; kids[ty] is the dict  *)
(*                    held for item type ty under "Item Type Settings"     *)
(*   kind "dict"      the settings dict of one item type; val is its       *)
(*                    "work_path_template" entry                           *)
(*   kind "empty"     {}                                                   *)
(* The model follows one plugin, so the cache key (plugin, context) is the *)
(* context.                                                                *)
(***************************************************************************)
Contexts == {"c1", "c2"}
\* the context of the bundle the plugin is constructed in
BundleContext == "c1"
\* the item types configured under "Item Type Settings", in a fixed order
TypeSeq == <<"ta", "tb">>
ItemTypes == Range(TypeSeq)
\* the types items have; "tx" has no entry under "Item Type Settings"
AllItemTypes == ItemTypes \cup {"tx"}
\* the template names an accept hook writes into the settings of its task
Templates == {<<"node", "w1">>, <<"node", "w2">>}
\* no object: None
NoObj == 0
NoVal == <<"absent">>
NoKids == [ty \in ItemTypes |-> NoObj]

\* the value the configuration resolves to for a context and an item type
Resolved(ctx, ty) == <<ctx, ty>>

EmptyDict == [kind |-> "empty", kids |-> NoKids, val |-> NoVal]

\* `not settings`: None and {} are false
IsFalse(H, id) == id = NoObj \/ H[id].kind = "empty"

\* position of the item type in TypeSeq
TypeIdx(ty) == CHOOSE k \in 1..Len(TypeSeq) : TypeSeq[k] = ty

\* copy.deepcopy(obj): fresh objects all the way down
deepcopy(H, id) ==
    IF H[id].kind = "settings"
    THEN LET n == Len(H)
             kidCopies == [k \in 1..Len(TypeSeq) |-> H[H[id].kids[TypeSeq[k]]]]
             top == [kind |-> "settings",
                     kids |-> [ty \in ItemTypes |-> n + TypeIdx(ty)],
                     val |-> NoVal]
         IN [H |-> H \o kidCopies \o <<top>>, id |-> n + Len(TypeSeq) + 1]
    ELSE [H |-> Append(H, H[id]), id |-> Len(H) + 1]

\* PluginBase.build_settings_dict(context): new Setting objects holding the
\* values resolved for the context, one per entry of the settings schema;
\* {} when the schema is empty
build_settings_dict(H, ctx) ==
    LET n == Len(H)
        dicts == [k \in 1..Len(TypeSeq) |->
                     [kind |-> "dict", kids |-> NoKids,
                      val |-> Resolved(ctx, TypeSeq[k])]]
        top == [kind |-> "settings",
                kids |-> [ty \in ItemTypes |-> n + TypeIdx(ty)],
                val |-> NoVal]
    IN IF schemaEmpty THEN [H |-> Append(H, EmptyDict), id |-> n + 1]
       ELSE [H |-> H \o dicts \o <<top>>, id |-> n + Len(TypeSeq) + 1]

\* a lookup that takes {} for a cached value: for comparison with CacheMiss
CacheMissIsNone(H, got) == got = NoObj

\* `if not settings:` on what settings_cache.get returned
CacheMiss(H, got) == IsFalse(H, got)

\* task_settings["Item Type Settings"] of the hook raises KeyError on {}
HookKeyError(H, task_settings) == H[task_settings].kind = "empty"

\* SettingsCache.get(plugin, context): the stored object itself, or None
SettingsCache_get(C, ctx) == C[ctx]

\* SettingsCache.add(plugin, context, settings): stores a deep copy
SettingsCache_add(H, C, ctx, id) ==
    LET c == deepcopy(H, id)
    IN [H |-> c.H, C |-> [C EXCEPT ![ctx] = c.id]]

\* the init_task_settings hook of the publish plugin: the entry of the
\* item's type under "Item Type Settings", or None
hook_init_task_settings(H, task_settings, ty) ==
    IF ty \notin ItemTypes THEN NoObj ELSE H[task_settings].kids[ty]

\* an initialisation that hands the looked-up settings to the hook without
\* copying them: for comparison with init_task_settings
init_task_settings_no_copy(H, C, ctx, ty, ok) ==
    LET got == SettingsCache_get(C, ctx)
        miss == CacheMiss(H, got)
    IN IF miss /\ ~ok
       THEN [H |-> Append(H, EmptyDict), C |-> C, ref |-> Len(H) + 1]
       ELSE LET b == IF miss THEN build_settings_dict(H, ctx)
                     ELSE [H |-> H, id |-> got]
                a == IF miss THEN SettingsCache_add(b.H, C, ctx, b.id)
                     ELSE [H |-> b.H, C |-> C]
                settings == IF miss THEN a.C[ctx] ELSE got
            IN IF HookKeyError(a.H, settings)
               THEN [H |-> Append(a.H, EmptyDict), C |-> a.C, ref |-> Len(a.H) + 1]
               ELSE [H |-> a.H, C |-> a.C,
                     ref |-> hook_init_task_settings(a.H, settings, ty)]

\* PublishPlugin.init_task_settings(item, context); ok: build_settings_dict
\* does not raise.  [H: the heap, C: the cache, ref: the returned settings]
init_task_settings(H, C, ctx, ty, ok) ==
    LET got == SettingsCache_get(C, ctx)
        miss == CacheMiss(H, got)
    IN IF miss /\ ~ok
       THEN \* except Exception: return {}
            [H |-> Append(H, EmptyDict), C |-> C, ref |-> Len(H) + 1]
       ELSE LET b == IF miss THEN build_settings_dict(H, ctx)
                     ELSE [H |-> H, id |-> got]
                a == IF miss THEN SettingsCache_add(b.H, C, ctx, b.id)
                     ELSE [H |-> b.H, C |-> C]
                c == deepcopy(a.H, b.id)
            IN IF HookKeyError(c.H, c.id)
               THEN \* except Exception: return {}
                    [H |-> Append(c.H, EmptyDict), C |-> a.C, ref |-> Len(c.H) + 1]
               ELSE [H |-> c.H, C |-> a.C,
                     ref |-> hook_init_task_settings(c.H, c.id, ty)]

\* PluginBase.__init__: the settings of the bundle's context are built, {}
\* when that raises, and added to the cache
PluginInit(ok) ==
    LET b == IF ok THEN build_settings_dict(<<>>, BundleContext)
             ELSE [H |-> <<EmptyDict>>, id |-> 1]
    IN SettingsCache_add(b.H, [ctx \in Contexts |-> NoObj], BundleContext, b.id)

\* the settings of a task as a hook reads them
ReadTask(H, t) ==
    IF t.ref = NoObj THEN <<"None", NoVal>> ELSE <<H[t.ref].kind, H[t.ref].val>>

\* the baseline the cache keeps for a context, read all the way down
Baseline(H, C, ctx) ==
    [ty \in ItemTypes |->
        IF C[ctx] = NoObj \/ H[C[ctx]].kind # "settings" THEN NoVal
        ELSE H[H[C[ctx]].kids[ty]].val]

NoBuilds == [ctx \in Contexts |-> [calls |-> 0, done |-> 0]]

InitSettingsVars ==
    /\ schemaEmpty \in BOOLEAN
    /\ \E ok \in BOOLEAN :
          /\ heap = PluginInit(ok).H
          /\ cache = PluginInit(ok).C
          /\ builds = [NoBuilds EXCEPT ![BundleContext] =
                          [calls |-> 1, done |-> IF ok THEN 1 ELSE 0]]
    /\ taskSettings = <<>>
    /\ held = <<>>

\* no plugin constructed
IdleSettingsVars ==
    /\ schemaEmpty = FALSE
    /\ heap = <<>>
    /\ cache = [ctx \in Contexts |-> NoObj]
    /\ taskSettings = <<>>
    /\ held = <<>>
    /\ builds = NoBuilds

\* a task is created for an item of type ty in context ctx: its settings
\* come from init_task_settings
InitTaskSettings(ctx, ty, ok) ==
    /\ Len(taskSettings) < MaxTasks
    /\ LET r == init_task_settings(heap, cache, ctx, ty, ok)
       IN /\ heap' = r.H
          /\ cache' = r.C
          /\ taskSettings' = Append(taskSettings, [ctx |-> ctx, ty |-> ty, ref |-> r.ref])
    /\ builds' = IF CacheMiss(heap, SettingsCache_get(cache, ctx))
                 THEN [builds EXCEPT ![ctx].calls = @ + 1,
                                     ![ctx].done = @ + (IF ok THEN 1 ELSE 0)]
                 ELSE builds
    /\ UNCHANGED <<held, schemaEmpty, collectVars, phaseVars, utilVars, hookVars, apiVars>>

\* the accept hook of task k writes the entry "work_path_template" of its
\* task settings; accept returns before that when the settings are false
AcceptOverwrites(k, w) ==
    /\ k \in 1..Len(taskSettings)
    /\ ~IsFalse(heap, taskSettings[k].ref)
    /\ heap' = [heap EXCEPT ![taskSettings[k].ref].val = w]
    /\ UNCHANGED <<cache, taskSettings, held, builds, schemaEmpty,
                   collectVars, phaseVars, utilVars, hookVars, apiVars>>

\* a caller of settings_cache.get(plugin, context) keeps what it returns
CacheGet(ctx) ==
    /\ held' = <<[ctx |-> ctx, ref |-> SettingsCache_get(cache, ctx)]>>
    /\ UNCHANGED <<heap, cache, taskSettings, builds, schemaEmpty,
                   collectVars, phaseVars, utilVars, hookVars, apiVars>>

\* the caller writes the entry "work_path_template" of the dict of item
\* type ty in the settings it got
MutateHeld(k, ty, w) ==
    /\ k \in 1..Len(held)
    /\ held[k].ref # NoObj
    /\ heap[held[k].ref].kind = "settings"
    /\ heap' = [heap EXCEPT ![heap[held[k].ref].kids[ty]].val = w]
    /\ UNCHANGED <<cache, taskSettings, held, builds, schemaEmpty,
                   collectVars, phaseVars, utilVars, hookVars, apiVars>>

(***************************************************************************)
(* The basic publish plugin hooks: hooks/basic/publish.py and              *)
(* hooks/basic/publish_files.py.  One item is validated and published      *)
(* against a disk and the PublishedFile entities of Shotgun.               *)
(***************************************************************************)
\* the folders a path of the item can lie in: its work area, its publish
\* area and the area of the symlinks to publishes
Locations == {"work", "pub", "link"}
\* the frame numbers of a file sequence
Frames == 1..MaxFrames
\* the frame part of the name of a file that is not part of a sequence
NoFrame == 0
\* the files a path stands for: itself, or one file per frame
FilesOf(path, is_sequence) ==
    IF is_sequence THEN {<<path, f>> : f \in Frames} ELSE {<<path, NoFrame>>}

\* util.get_path_for_frame(path, "*"): the frame spec in the file name of
\* a sequence path replaced by `frame_num`
get_path_for_frame(path, frame_num) == <<path, frame_num>>
\* [f for f in glob.iglob(seq_pattern) if os.path.isfile(f)]
glob_files(W, seq_pattern) ==
    {f \in W.disk : f[1] = seq_pattern[1] /\ f[2] # NoFrame}
\* os.path.exists(path) of a path that is not a sequence
path_exists(W, path) == <<path, NoFrame>> \in W.disk

HookLog(W, level, msg) == [W EXCEPT !.log = Append(@, <<level, msg>>)]

\* util.get_conflicting_publishes(context, path, name, filters): the
\* PublishedFile entities of this context and name with a status
get_conflicting_publishes(W, publish_path) ==
    {r \in W.sg : r.path = publish_path}

\* what the _get_<attr> methods of one validate call compute: `fails` names
\* the attribute whose method raises, "first" for the first attribute of
\* attr_list, "last" for the last one, "none" when none raises
AttrResults ==
    [fails : {"none", "first", "last"},
     publish_path : {"pub", "work"},
     publish_symlink_path : {NoPath, "link"}]

\* the loop over attr_list of validate; `with_symlink` is whether attr_list
\* holds publish_symlink_path (publish.py) or not (publish_files.py)
SetAttrs(W, a, with_symlink) ==
    IF a.fails = "first"
    THEN [W |-> HookLog(W, "error", "Unable to determine"), ok |-> FALSE]
    ELSE LET W1 == [W EXCEPT !.props.publish_path = a.publish_path,
                             !.props.publish_symlink_path =
                                 IF with_symlink THEN a.publish_symlink_path ELSE @]
         IN IF a.fails = "last"
            THEN [W |-> HookLog(W1, "error", "Unable to determine"), ok |-> FALSE]
            ELSE [W |-> W1, ok |-> TRUE]

\* the warning on conflicting publishes in Shotgun
WarnConflicts(W) ==
    IF get_conflicting_publishes(W, W.props.publish_path) # {}
    THEN HookLog(W, "warning", "conflicting publishes in Shotgun")
    ELSE W

\* "ensure the published file(s) don't already exist on disk"
conflict_info(W) ==
    IF W.props.is_sequence
    THEN glob_files(W, get_path_for_frame(W.props.publish_path, "*")) # {}
    ELSE path_exists(W, W.props.publish_path)

\* "check if its an in place publish": path != publish_path
InPlace(W) ==
    IF W.props.is_sequence
    THEN get_path_for_frame(W.props.path, "*")
            = get_path_for_frame(W.props.publish_path, "*")
    ELSE W.props.path = W.props.publish_path

\* the disk check of a validate that never skips it
DiskCheckAlways(W, skip_in_place) ==
    IF conflict_info(W)
    THEN [W |-> HookLog(W, "error", "already exists on disk"), ret |-> FALSE]
    ELSE [W |-> HookLog(W, "info", "A Publish will be created"), ret |-> TRUE]

\* the end of validate: the disk check, skipped by publish.py for an in
\* place publish, and the final info message
DiskCheck(W, skip_in_place) ==
    IF ~(skip_in_place /\ InPlace(W)) /\ conflict_info(W)
    THEN [W |-> HookLog(W, "error", "already exists on disk"), ret |-> FALSE]
    ELSE [W |-> HookLog(W, "info", "A Publish will be created"), ret |-> TRUE]

\* hooks/basic/publish.py validate
publish_validate(W, a) ==
    LET s == SetAttrs(W, a, TRUE)
    IN IF ~s.ok THEN [W |-> s.W, ret |-> FALSE]
       ELSE DiskCheck(WarnConflicts(s.W), TRUE)

\* "ensure that work file(s) exist on disk to be published"
WorkFilesExist(W) ==
    IF W.props.is_sequence THEN W.props.sequence_paths # {}
    ELSE path_exists(W, W.props.path)

\* hooks/basic/publish_files.py validate
publish_files_validate(W, a) ==
    IF ~WorkFilesExist(W)
    THEN [W |-> HookLog(W, "warning", "File does not exist"), ret |-> FALSE]
    ELSE LET s == SetAttrs(W, a, FALSE)
         IN IF ~s.ok THEN [W |-> s.W, ret |-> FALSE]
            ELSE DiskCheck(WarnConflicts(s.W), FALSE)

\* the outcomes of the calls one publish makes outside the hook: the copy
\* of the work files, sgtk.util.register_publish, delete_files for each of
\* the paths in `delete_raises`, shotgun.delete for each of the entities in
\* `sg_delete_raises`
PublishIO ==
    [copy : {"ok", "raise"},
     register : {"ok", "raise"},
     delete_raises : SUBSET {"pub", "link"},
     sg_delete_raises : SUBSET (1..MaxPublishes)]

\* no exception
NoExc == <<>>

\* publish_files / _copy_files: each work file copied to the publish path,
\* a file whose source and destination are the same skipped
publish_files(W) ==
    LET work_files == IF W.props.is_sequence THEN W.props.sequence_paths
                      ELSE {<<W.props.path, NoFrame>>}
    IN [W EXCEPT !.disk = @ \cup {<<W.props.publish_path, f[2]>> : f \in work_files}]

\* symlink_publishes / _symlink_files
symlink_publishes(W) ==
    LET src_files == {f \in W.disk : f[1] = W.props.publish_path}
    IN [W EXCEPT !.disk = @ \cup {<<W.props.publish_symlink_path, f[2]>> : f \in src_files}]

\* delete_files / _delete_files for one path
delete_files(W, deletion_path) ==
    [W EXCEPT !.disk = {f \in @ : f[1] # deletion_path}]

\* the loop of undo over sg_publish_data_list: an exception of
\* shotgun.delete is caught and logged
RECURSIVE DeletePublishes(_, _, _)
DeletePublishes(W, ids, io) ==
    IF ids = <<>> THEN W
    ELSE LET W1 == IF Head(ids) \in io.sg_delete_raises
                   THEN HookLog(W, "error", "Failed to delete PublishedFile Entity")
                   ELSE [W EXCEPT !.sg = {r \in @ : r.id # Head(ids)}]
         IN DeletePublishes(W1, Tail(ids), io)

\* hooks/basic/publish.py undo
undo(W, io) ==
    LET p == W.props
    IN IF p.publish_symlink_path # NoPath /\ p.publish_symlink_path \in io.delete_raises
       THEN [W |-> W, raised |-> <<"delete_files", p.publish_symlink_path>>]
       ELSE LET W1 == IF p.publish_symlink_path # NoPath
                      THEN delete_files(W, p.publish_symlink_path) ELSE W
            IN IF p.publish_path \in io.delete_raises
               THEN [W |-> W1, raised |-> <<"delete_files", p.publish_path>>]
               ELSE LET W2 == delete_files(W1, p.publish_path)
                        W3 == DeletePublishes(W2, p.sg_publish_data_list, io)
                    IN [W |-> [W3 EXCEPT !.props.sg_publish_data_list = <<>>],
                        raised |-> NoExc]

\* the work files _copy_files is to copy are there to be copied
WorkFilesOnDisk(W) ==
    IF W.props.is_sequence THEN W.props.sequence_paths \subseteq W.disk
    ELSE path_exists(W, W.props.path)

\* hooks/basic/publish.py publish: the files are published and linked, the
\* publish is registered; when that fails, undo runs and the registration
\* error is raised again
publish(W, io) ==
    IF W.props.publish_path = NoPath
    THEN [W |-> W, raised |-> <<"AttributeError", "publish_path">>,
          register |-> "not called", undo |-> "not run"]
    ELSE IF io.copy = "raise" \/ ~WorkFilesOnDisk(W)
    THEN [W |-> W, raised |-> <<"publish_files", W.props.path>>,
          register |-> "not called", undo |-> "not run"]
    ELSE LET W1 == publish_files(W)
             W2 == IF W1.props.publish_symlink_path # NoPath
                   THEN symlink_publishes(W1) ELSE W1
         IN IF io.register = "ok"
            THEN LET id == W2.nextId
                     W3 == [W2 EXCEPT !.sg = @ \cup {[id |-> id, path |-> W2.props.publish_path]},
                                      !.nextId = @ + 1,
                                      !.props.sg_publish_data_list = Append(@, id)]
                 IN [W |-> HookLog(W3, "info", "Publish registered!"),
                     raised |-> NoExc, register |-> "ok", undo |-> "not run"]
            ELSE LET u == undo(HookLog(W2, "error", "Couldn't register Publish"), io)
                 IN IF u.raised # NoExc
                    THEN [W |-> u.W, raised |-> u.raised,
                          register |-> "raise", undo |-> "raised"]
                    ELSE [W |-> u.W, raised |-> <<"register_publish", W.props.publish_path>>,
                          register |-> "raise", undo |-> "returned"]

\* the state of the hooks between two calls
HookWorld == [disk |-> disk, sg |-> shotgun.rows, nextId |-> shotgun.nextId,
              props |-> props, log |-> <<>>]

NoHookCall == [op |-> "none", hook |-> "none", attrs |-> "none", ret |-> NoneVal,
               raised |-> NoExc, register |-> "not called", undo |-> "not run",
               log |-> <<>>]

\* an item of the work area, not yet validated; its work files may be on
\* disk, a file of the publish area may be, and Shotgun may hold an earlier
\* publish of the publish path
InitHookVars ==
    \E seq \in BOOLEAN, earlier \in BOOLEAN :
      \E work \in {{}, FilesOf("work", seq)},
         pub \in {{}} \cup {{f} : f \in FilesOf("pub", seq)} :
        /\ props = [path |-> "work", is_sequence |-> seq,
                    sequence_paths |-> IF seq THEN work ELSE {},
                    publish_path |-> NoPath, publish_symlink_path |-> NoPath,
                    sg_publish_data_list |-> <<>>]
        /\ disk = work \cup pub
        /\ shotgun = IF earlier
                     THEN [rows |-> {[id |-> 1, path |-> "pub"]}, nextId |-> 2]
                     ELSE [rows |-> {}, nextId |-> 1]
        /\ hookOut = NoHookCall

\* no item handed to the hooks
\* no helper called
IdleUtilVars ==
    /\ world = <<>>
    /\ answer = <<>>

IdleHookVars ==
    /\ IdleUtilVars
    /\ props = [path |-> "work", is_sequence |-> FALSE, sequence_paths |-> {},
                publish_path |-> NoPath, publish_symlink_path |-> NoPath,
                sg_publish_data_list |-> <<>>]
    /\ disk = {}
    /\ shotgun = [rows |-> {}, nextId |-> 1]
    /\ hookOut = NoHookCall

\* the validate of one of the two hooks is called on the item
HookValidate(hook, a) ==
    /\ \E r \in {IF hook = "publish" THEN publish_validate(HookWorld, a)
                 ELSE publish_files_validate(HookWorld, a)} :
          /\ props' = r.W.props
          /\ hookOut' = [NoHookCall EXCEPT !.op = "validate", !.hook = hook,
                                           !.attrs = a.fails, !.ret = r.ret,
                                           !.log = r.W.log]
    /\ UNCHANGED <<disk, shotgun, collectVars, phaseVars, utilVars, settingsVars, apiVars>>

\* the publish of hooks/basic/publish.py is called on the item
HookPublish(io) ==
    /\ io.register = "ok" => shotgun.nextId <= MaxPublishes
    /\ \E r \in {publish(HookWorld, io)} :
          /\ props' = r.W.props
          /\ disk' = r.W.disk
          /\ shotgun' = [rows |-> r.W.sg, nextId |-> r.W.nextId]
          /\ hookOut' = [NoHookCall EXCEPT !.op = "publish", !.hook = "publish",
                                           !.raised = r.raised, !.register = r.register,
                                           !.undo = r.undo, !.log = r.W.log]
    /\ UNCHANGED <<collectVars, phaseVars, utilVars, settingsVars, apiVars>>

(***************************************************************************)
(* api/plugins/setting.py: DictPluginSetting.  A dict value is a function  *)
(* from its keys; a child setting carries the build that created it, so    *)
(* that a child of an earlier build is told from a new one.                *)
(***************************************************************************)
SettingKeys == {"k1", "k2", "k3"}
SettingVals == {"x", "y"}
\* the dicts a value can be
Dicts == UNION {[K -> SettingVals] : K \in SUBSET SettingKeys}

\* create_plugin_setting(value_name, sub_value, value_schema) in build b
create_plugin_setting(b, sub_value) == [made |-> b, value |-> sub_value]

\* a rebuild that adds to the children it finds: for comparison with
\* _process_children
_process_children_keeps_old(d, before) ==
    LET b == d.made + 1
        keys == IF d.items # {} THEN d.items \cap DOMAIN d.value ELSE DOMAIN d.value
    IN [d |-> [d EXCEPT !.made = b,
                        !.children = [k \in keys \cup DOMAIN d.children |->
                                         IF k \in keys
                                         THEN create_plugin_setting(b, d.value[k])
                                         ELSE d.children[k]]],
        raised |-> NoExc]

\* DictPluginSetting._process_children.  d.items are the keys of the
\* "items" of the schema, {} when the schema has none (or an empty one).
\* With items, the loop runs over the declared keys, in the arbitrary
\* order of a dict, and self._value[sub_key] raises KeyError at the first
\* of them the value lacks: `before` are the keys that came before it.
_process_children(d, before) ==
    LET b == d.made + 1
    IN IF d.items # {}
       THEN IF d.items \subseteq DOMAIN d.value
            THEN [d |-> [d EXCEPT !.made = b,
                                  !.children = [k \in d.items |->
                                      create_plugin_setting(b, d.value[k])]],
                  raised |-> NoExc]
            ELSE [d |-> [d EXCEPT !.made = b,
                                  !.children = [k \in before |->
                                      create_plugin_setting(b, d.value[k])]],
                  raised |-> <<"KeyError">>]
       ELSE [d |-> [d EXCEPT !.made = b,
                             !.children = [k \in DOMAIN d.value |->
                                 create_plugin_setting(b, d.value[k])]],
             raised |-> NoExc]

\* the orders the declared keys can be iterated in, as the keys that come
\* before the first one missing from value v
Befores(d, v) == SUBSET (d.items \cap DOMAIN v)

\* PluginSetting.__init__ of a DictPluginSetting
DictPluginSetting(items, value) ==
    _process_children([items |-> items, value |-> value, children |-> <<>>,
                       made |-> 0], {})

\* PluginSetting.value setter
set_value(d, value, before) ==
    IF value # d.value
    THEN _process_children([d EXCEPT !.value = value], before)
    ELSE [d |-> d, raised |-> NoExc]

\* DictPluginSetting.__iter__ / __len__ / __getitem__
setting_keys(d) == DOMAIN d.children
setting_len(d) == Cardinality(DOMAIN d.children)
setting_getitem(d, key) == d.children[key]

NoSet == [op |-> "none", old_keys |-> {}, old_made |-> 0, raised |-> NoExc]

\* a dict setting as its constructor leaves it, the constructor not raising
InitDictVars ==
    /\ \E items \in SUBSET SettingKeys :
         \E value \in {v \in Dicts : items \subseteq DOMAIN v} :
            dictSetting = DictPluginSetting(items, value).d
    /\ setOut = NoSet

\* setting.value = value
SetValue(value) ==
    /\ dictSetting.made < MaxBuilds
    /\ \E before \in Befores(dictSetting, value) :
         \E r \in {set_value(dictSetting, value, before)} :
            /\ dictSetting' = r.d
            /\ setOut' = [op |-> "set", old_keys |-> DOMAIN dictSetting.value,
                          old_made |-> dictSetting.made, raised |-> r.raised]
    /\ UNCHANGED <<lookup, ctxOut, collectVars, phaseVars, utilVars, settingsVars, hookVars>>

(***************************************************************************)
(* The collector wrappers and on_context_changed, in the two generations   *)
(* of the wrappers: CollectorPlugin (processing/plugin.py) runs it on the  *)
(* items its hook returns; CollectorPluginInstance                         *)
(* (api/plugins/collector_instance.py) leaves it to the creation of the    *)
(* item.                                                                   *)
(***************************************************************************)
\* the items created between tree S and tree S1, in creation order
Created(S, S1) == [k \in 1..(S1.nextItem - S.nextItem) |-> S.nextItem + k - 1]

\* what a hook of the processing generation does besides creating items:
\* returns    the child_items it returns: every item it created ("all"),
\*            the main, top-level ones ("tops") or None ("none")
\* fails_at   the child item on which on_context_changed raises, 0: none
\* ctor_calls whether creating an item runs on_context_changed already
HookOptions ==
    [returns : {"all", "tops", "none"}, fails_at : 0..(MaxTops + 1),
     ctor_calls : BOOLEAN]

\* CollectorPlugin.run_process_file / run_process_current_session: the
\* hook creates the items of shape sh under p; [S, ret, calls: the items
\* on_context_changed was called on, in order]
processing_run_collect(S, p, sh, who, what, opt) ==
    LET S1 == HookCreates(S, p, sh)
        created == Created(S, S1)
        at_creation == IF opt.ctor_calls THEN created ELSE <<>>
        child_items == IF opt.returns = "all" THEN created
                       ELSE SelectSeq(created, LAMBDA i : S1.parent[i] = p)
    IN IF sh.raises \/ opt.returns = "none"
       THEN [S |-> LogError(S1, who, what), ret |-> NoneVal, calls |-> at_creation]
       ELSE IF opt.fails_at \in 1..Len(child_items)
       THEN [S |-> LogError(S1, who, what), ret |-> NoneVal,
             calls |-> at_creation \o SubSeq(child_items, 1, opt.fails_at)]
       ELSE [S |-> S1, ret |-> child_items, calls |-> at_creation \o child_items]

\* CollectorPluginInstance.run_process_file / run_process_current_session:
\* the wrapper makes no call of on_context_changed; the item runs it once
\* when it is created
api_run_collect(S, w) == [S |-> w.S, ret |-> w.ret, calls |-> Created(S, w.S)]

\* the `finally` clause of the CollectorPluginInstance wrappers: the calls
\* of QCoreApplication.processEvents() it makes
api_process_events(has_ui) == IF ~has_ui THEN 1 ELSE 0

\* the `finally` clause of the CollectorPlugin wrappers
processing_process_events(has_ui) == 1

NoCtx == [op |-> "none", generation |-> "none", created |-> {}, calls |-> <<>>,
          has_ui |-> FALSE, yields |-> 0]

Generations == {"api", "processing"}

\* run_process_file(root_item, path) of one of the two wrappers, under an
\* engine with a UI or without
WrapProcessFile(generation, path, opt, has_ui) ==
    /\ FitsCount(ShapeItemCount(fileHook[path]))
    /\ \E r \in {IF generation = "api"
                 THEN api_run_collect(pt, run_process_file(pt, Root, path))
                 ELSE processing_run_collect(pt, Root, fileHook[path],
                                             "run_process_file", path, opt)} :
          /\ pt' = Quiet(r.S)
          /\ ctxOut' = [op |-> "run_process_file", generation |-> generation,
                        created |-> r.S.items \ pt.items, calls |-> r.calls,
                        has_ui |-> has_ui,
                        yields |-> IF generation = "api"
                                   THEN api_process_events(has_ui)
                                   ELSE processing_process_events(has_ui)]
    /\ UNCHANGED <<fileHook, lastCall, dictSetting, setOut, lookup,
                   phaseVars, utilVars, settingsVars, hookVars>>

\* run_process_current_session(root_item) of one of the two wrappers
WrapProcessSession(generation, sh, opt, has_ui) ==
    /\ FitsCount(ShapeItemCount(sh))
    /\ \E r \in {IF generation = "api"
                 THEN api_run_collect(pt, run_process_current_session(pt, Root, sh))
                 ELSE processing_run_collect(pt, Root, sh,
                                             "run_process_current_session",
                                             "session", opt)} :
          /\ pt' = Quiet(r.S)
          /\ ctxOut' = [op |-> "run_process_current_session",
                        generation |-> generation,
                        created |-> r.S.items \ pt.items, calls |-> r.calls,
                        has_ui |-> has_ui,
                        yields |-> IF generation = "api"
                                   THEN api_process_events(has_ui)
                                   ELSE processing_process_events(has_ui)]
    /\ UNCHANGED <<fileHook, lastCall, dictSetting, setOut, lookup,
                   phaseVars, utilVars, settingsVars, hookVars>>

(***************************************************************************)
(* Resolution of the app settings of a context, in its three places:       *)
(* get_setting_for_context (api/plugins/setting.py),                       *)
(* _get_resolved_plugin_settings (processing/plugin.py) and                *)
(* get_raw_plugin_settings (processing/setting.py).                        *)
(***************************************************************************)
\* the names of the app instances configured
InstanceNames == 1..MaxInstances
\* the name of an app instance that is not among them
OtherInstance == MaxInstances + 1
\* what find_app_settings can return: one entry per instance of the app
AppSettingsLists ==
    {[k \in 1..Len(names) |->
         [app_instance |-> names[k], settings |-> <<"settings of", names[k]>>]] :
        names \in {s \in UNION {[1..n -> InstanceNames] : n \in 0..MaxInstances} :
                      NoDuplicates(s)}}

\* a local variable that was never assigned is read
UnboundLocalError(name) == <<"UnboundLocalError", name>>
TankError(msg) == <<"TankError", msg>>

\* the first entry of the list named instance_name; the caller knows there
\* is one
FirstNamed(list, instance_name) ==
    list[Min({k \in 1..Len(list) : list[k].app_instance = instance_name})]

\* get_setting_for_context, the context not that of the bundle: the choice
\* of app_settings among context_settings
api_app_settings(context_settings, instance_name) ==
    IF context_settings = <<>>
    THEN [raised |-> TankError("Cannot find settings"), app_settings |-> NoneVal]
    ELSE IF Len(context_settings) > 1
    THEN IF \E k \in 1..Len(context_settings) :
               context_settings[k].app_instance = instance_name
         THEN [raised |-> NoExc,
               app_settings |-> FirstNamed(context_settings, instance_name)]
         ELSE [raised |-> UnboundLocalError("app_settings"), app_settings |-> NoneVal]
    ELSE [raised |-> NoExc, app_settings |-> context_settings[1]]

\* _get_resolved_plugin_settings: the loop over more than one instance
\* iterates `app_settings`, the local it is about to assign
plugin_app_settings(app_settings_list, instance_name) ==
    IF app_settings_list = <<>>
    THEN [raised |-> TankError("Cannot find settings"), app_settings |-> NoneVal]
    ELSE IF Len(app_settings_list) > 1
    THEN [raised |-> UnboundLocalError("app_settings"), app_settings |-> NoneVal]
    ELSE [raised |-> NoExc, app_settings |-> app_settings_list[1]]

\* get_raw_plugin_settings: as above, app_settings being the "settings" of
\* the entry
raw_app_settings(app_settings_list, instance_name) ==
    IF app_settings_list = <<>>
    THEN [raised |-> TankError("Cannot find settings"), app_settings |-> NoneVal]
    ELSE IF Len(app_settings_list) > 1
    THEN [raised |-> UnboundLocalError("app_settings"), app_settings |-> NoneVal]
    ELSE [raised |-> NoExc, app_settings |-> app_settings_list[1].settings]

ResolutionSites == {"get_setting_for_context", "_get_resolved_plugin_settings",
                    "get_raw_plugin_settings"}

NoLookup == [site |-> "none", list |-> <<>>, instance_name |-> OtherInstance,
             raised |-> NoExc, app_settings |-> NoneVal]

\* the settings of a context are resolved at one of the three places, the
\* current app instance being named instance_name
Resolve(site, list, instance_name) ==
    /\ \E r \in {IF site = "get_setting_for_context"
                 THEN api_app_settings(list, instance_name)
                 ELSE IF site = "_get_resolved_plugin_settings"
                 THEN plugin_app_settings(list, instance_name)
                 ELSE raw_app_settings(list, instance_name)} :
          lookup' = [site |-> site, list |-> list, instance_name |-> instance_name,
                     raised |-> r.raised, app_settings |-> r.app_settings]
    /\ UNCHANGED <<dictSetting, setOut, ctxOut, collectVars, phaseVars, utilVars, settingsVars, hookVars>>

\* no dict setting constructed, no settings resolved
IdleApiVars ==
    /\ dictSetting = DictPluginSetting({}, <<>>).d
    /\ setOut = NoSet
    /\ lookup = NoLookup
    /\ ctxOut = NoCtx

(***************************************************************************)
(* The publish version: FileCollectorPlugin._resolve_item_fields           *)
(* (hooks/basic/collector.py) and PublishPlugin._get_publish_version       *)
(* (hooks/basic/publish.py).  The items are a chain: item 1 is a top-level *)
(* item, item i + 1 is a child of item i.  A path is [stem, version]: the  *)
(* name of its file and the number after "v" in it, NoVersion when the     *)
(* name holds none.                                                        *)
(***************************************************************************)
\* None in the place of a version number
NoVersion == -1
VersionItems == 1..3
ItemParent(i) == i - 1
VersionOrNone == {NoVersion} \cup 1..MaxVersion
\* item.properties.get("path") of an item without a file
NoFilePath == [stem |-> "none", version |-> NoVersion]

Max(S) == CHOOSE x \in S : \A y \in S : x >= y

\* `if version:` on a version number or None
Truthy(version) == version # NoVersion /\ version # 0

\* util.get_version_number(path): the number of the version pattern in the
\* file name, None when the name has no version
get_version_number(path) == path.version

RECURSIVE get_parent_version_number_r(_, _, _)
\* FileCollectorPlugin.__get_parent_version_number_r(item); fields holds
\* the fields of the items above it
get_parent_version_number_r(paths, fields, i) ==
    IF i = Root THEN NoVersion
    ELSE LET p == ItemParent(i)
             from_fields == IF p # Root /\ fields[p].has THEN fields[p].version
                            ELSE NoVersion
             from_path == IF p # Root /\ paths[p] # NoFilePath
                          THEN get_version_number(paths[p]) ELSE NoVersion
         IN IF Truthy(from_fields) THEN from_fields
            ELSE IF Truthy(from_path) THEN from_path
            ELSE IF p = Root THEN NoVersion
            ELSE get_parent_version_number_r(paths, fields, p)

\* the "version" entry of what _resolve_item_fields returns for item i:
\* [has: the key is there, version: its value]
_resolve_item_fields(paths, fields, i) ==
    IF paths[i] # NoFilePath
    THEN [has |-> TRUE, version |-> get_version_number(paths[i])]
    ELSE [has |-> TRUE, version |-> get_parent_version_number_r(paths, fields, i)]

RECURSIVE ResolveFrom(_, _, _)
\* on_context_changed runs on the items in creation order, parents first
ResolveFrom(paths, fields, i) ==
    IF i > Len(paths) THEN fields
    ELSE ResolveFrom(paths, Append(fields, _resolve_item_fields(paths, fields, i)), i + 1)

\* self._find_publishes(context, publish_name, publish_type)
_find_publishes(W, publish_name) == {p \in W.publishes : p.name = publish_name}

\* int(None)
TypeError == <<"TypeError", "int() argument">>

RECURSIVE _get_publish_version(_, _)
\* PublishPlugin._get_publish_version(item, task_settings): [raised, value]
_get_publish_version(W, i) ==
    IF i = Root THEN [raised |-> NoExc, value |-> NoVersion]
    ELSE LET parent_version == _get_publish_version(W, ItemParent(i))
             existing_publishes == _find_publishes(W, W.publish_name[i])
             publish_version ==
                 Max({p.version_number : p \in existing_publishes} \cup {0}) + 1
             f == W.fields[i]
         IN IF parent_version.raised # NoExc THEN parent_version
            ELSE IF Truthy(parent_version.value) THEN parent_version
            ELSE IF f.has /\ f.version = NoVersion
            THEN [raised |-> TypeError, value |-> NoVersion]
            ELSE [raised |-> NoExc,
                  value |-> Max({IF f.has THEN f.version ELSE 0, publish_version})]

\* the items: the first two with a file whose name may hold a version, the
\* third without a file; the fields are those of the collector, or, for the
\* top-level item, fields without a "version" entry; Shotgun holds
\* publishes of the name of the items and maybe one of another name
InitVersion ==
    \E v1, v2 \in VersionOrNone, nokey \in BOOLEAN, other \in BOOLEAN,
       vs \in SUBSET (1..MaxVersion) :
       LET paths == <<[stem |-> "f1", version |-> v1],
                      [stem |-> "f2", version |-> v2], NoFilePath>>
           fields == ResolveFrom(paths, <<>>, 1)
       IN /\ world = [paths |-> paths,
                      fields |-> IF nokey
                                 THEN [fields EXCEPT ![1] = [has |-> FALSE,
                                                            version |-> NoVersion]]
                                 ELSE fields,
                      publish_name |-> [i \in VersionItems |-> "n1"],
                      publish_version |-> [i \in VersionItems |-> NoVersion],
                      publishes |->
                          {[name |-> "n1", version_number |-> v] : v \in vs}
                          \cup (IF other
                                THEN {[name |-> "n2", version_number |-> MaxVersion]}
                                ELSE {})]
          /\ answer = [op |-> "none", item |-> Root, raised |-> NoExc,
                       value |-> NoVersion, existing |-> {}]

\* validate computes item.properties.publish_version of item i
GetPublishVersion(i) ==
    /\ \E r \in {_get_publish_version(world, i)} :
          /\ answer' = [op |-> "_get_publish_version", item |-> i,
                        raised |-> r.raised, value |-> r.value,
                        existing |-> {p.version_number :
                                        p \in _find_publishes(world, world.publish_name[1])}]
          /\ world' = IF r.raised = NoExc
                      THEN [world EXCEPT !.publish_version[i] = r.value]
                      ELSE world
    /\ UNCHANGED <<collectVars, phaseVars, settingsVars, hookVars, apiVars>>

\* publish registers item i with the version validate computed
RegisterPublish(i) ==
    /\ world.publish_version[i] \in 1..MaxVersion
    /\ world' = [world EXCEPT !.publishes = @ \cup
                    {[name |-> world.publish_name[i],
                      version_number |-> world.publish_version[i]]}]
    /\ answer' = [op |-> "register_publish", item |-> i, raised |-> NoExc,
                  value |-> world.publish_version[i], existing |-> {}]
    /\ UNCHANGED <<collectVars, phaseVars, settingsVars, hookVars, apiVars>>

(***************************************************************************)
(* PublishPlugin._save_to_next_version (base_hooks/publish_plugin.py) and  *)
(* BasePublishPlugin._save_to_next_version (hooks/publish.py).  A file of  *)
(* the family of the session path is named by its version number: a path  *)
(* is [stem, version, tmpl], the number after "v" in the file name and the *)
(* "version" field a template reads from the path, NoVersion when there is *)
(* none; the disk is the set of the versions that exist.                   *)
(***************************************************************************)
SavePaths ==
    [stem : {"f1"}, version : {NoVersion} \cup 0..MaxVersion,
     tmpl : {NoVersion} \cup 0..MaxVersion]

\* util.get_next_version_path(path) of the configured path_info hook: the
\* shipped hook bumps the template's version field, else the version in the
\* file name; None when there is neither, or from a hook that finds none
get_next_version_path(path_info, path) ==
    IF path_info # "shipped" THEN NoVersion
    ELSE IF path.tmpl # NoVersion THEN path.tmpl + 1
    ELSE IF path.version # NoVersion THEN path.version + 1
    ELSE NoVersion

\* os.path.exists(next_version_path)
os_path_exists(W, next_version_path) == next_version_path \in W.disk

\* save_callback(next_version_path): the session is written to that path
\* and becomes the current path, or the callback raises
save_callback(W, next_version_path, cb) ==
    IF cb = "ok"
    THEN [world |-> [W EXCEPT !.disk = @ \cup {next_version_path},
                              !.path = [@ EXCEPT !.version = next_version_path,
                                                 !.tmpl = IF @ = NoVersion THEN @
                                                          ELSE next_version_path]],
          result |-> next_version_path, raised |-> NoExc, calls |-> 1]
    ELSE [world |-> W, result |-> NoVersion,
          raised |-> <<"Exception", "save">>, calls |-> 1]

SavedNothing(W) == [world |-> W, result |-> NoVersion, raised |-> NoExc, calls |-> 0]

\* the same without the test of os.path.exists
_save_to_next_version_overwriting(W, cb) ==
    LET version_number == get_version_number(W.path)
        next_version_path == get_next_version_path(W.path_info, W.path)
    IN IF version_number = NoVersion THEN SavedNothing(W)
       ELSE IF next_version_path = NoVersion THEN SavedNothing(W)
       ELSE save_callback(W, next_version_path, cb)

\* PublishPlugin._save_to_next_version(path, save_callback) of base_hooks
_save_to_next_version(W, cb) ==
    LET version_number == get_version_number(W.path)
        next_version_path == get_next_version_path(W.path_info, W.path)
    IN IF version_number = NoVersion THEN SavedNothing(W)
       ELSE IF next_version_path = NoVersion THEN SavedNothing(W)
       ELSE IF os_path_exists(W, next_version_path) THEN SavedNothing(W)
       ELSE save_callback(W, next_version_path, cb)

\* BasePublishPlugin._get_next_version_info(path, item) of hooks/publish.py:
\* <<next_version_path, version>>
_get_next_version_info(W, path) ==
    IF path = NoFilePath THEN <<NoVersion, NoVersion>>
    ELSE LET next_version_path == get_next_version_path(W.path_info, path)
             cur_version == get_version_number(path)
         IN <<next_version_path,
              IF Truthy(cur_version) THEN cur_version + 1 ELSE NoVersion>>

\* the parameters of BasePublishPlugin._get_next_version_info after self,
\* none with a default
_get_next_version_info_params == <<"path", "item", "task_settings">>

\* calling a method with other arguments than its parameters
ArityError == <<"TypeError", "arguments">>

\* BasePublishPlugin._save_to_next_version(path, item, save_callback): it
\* calls self._get_next_version_info(path, item)
hooks_save_to_next_version(W, cb) ==
    LET args == <<"path", "item">>
        info == _get_next_version_info(W, W.path)
        next_version_path == info[1]
        version == info[2]
    IN IF Len(args) # Len(_get_next_version_info_params)
       THEN [world |-> W, result |-> NoVersion, raised |-> ArityError, calls |-> 0]
       ELSE IF version = NoVersion THEN SavedNothing(W)
       ELSE IF next_version_path = NoVersion THEN SavedNothing(W)
       ELSE IF os_path_exists(W, next_version_path) THEN SavedNothing(W)
       ELSE save_callback(W, next_version_path, cb)

SaveImpls == {"base_hooks", "hooks"}
SaveCallbacks == {"ok", "raise"}

\* a session path, the files of its family on disk, the path_info hook
InitSave ==
    \E path \in SavePaths, d \in SUBSET (0..(MaxVersion + 1)),
       path_info \in {"shipped", "custom"} :
       /\ world = [path |-> path, disk |-> d, path_info |-> path_info]
       /\ answer = [op |-> "none", impl |-> "none", path |-> path, before |-> d,
                    result |-> NoVersion, raised |-> NoExc, calls |-> 0]

\* a plugin's finalize bumps the session file
SaveToNextVersion(impl, cb) ==
    /\ world.path.version <= MaxVersion /\ world.path.tmpl <= MaxVersion
    /\ \E r \in {IF impl = "base_hooks" THEN _save_to_next_version(world, cb)
                 ELSE hooks_save_to_next_version(world, cb)} :
          /\ world' = r.world
          /\ answer' = [op |-> "_save_to_next_version", impl |-> impl,
                        path |-> world.path, before |-> world.disk,
                        result |-> r.result, raised |-> r.raised,
                        calls |-> r.calls]
    /\ UNCHANGED <<collectVars, phaseVars, settingsVars, hookVars, apiVars>>

\* the user saves the session under another version of the family
SaveSessionAs(v) ==
    /\ world.path.version # NoVersion
    /\ world' = [world EXCEPT !.disk = @ \cup {v},
                              !.path = [@ EXCEPT !.version = v,
                                                 !.tmpl = IF @ = NoVersion THEN @ ELSE v]]
    /\ answer' = [answer EXCEPT !.op = "save_as"]
    /\ UNCHANGED <<collectVars, phaseVars, settingsVars, hookVars, apiVars>>

(***************************************************************************)
(* Tasks of the processing generation: for every configured plugin the     *)
(* item's task settings are initialised (PublishPlugin.init_task_settings) *)
(* and handed to the accept hook (PublishPlugin.run_accept); a task is     *)
(* created when the answer is accepted.  Every plugin has its own heap and *)
(* its own entries of the settings cache.                                  *)
(***************************************************************************)
TaskPlugins == <<"pa", "pb">>

\* an accept hook that takes every settings: for comparison with hook_accept
hook_accept_any_settings(H, plugin, task_settings, ty) == "accept"

\* BasePublishPlugin.accept(task_settings, item): accepted only with task
\* settings; the hook plugin "pb" derives from it raises on items of "tb"
hook_accept(H, plugin, task_settings, ty) ==
    IF plugin = "pb" /\ ty = "tb" THEN "raise"
    ELSE IF IsFalse(H, task_settings) THEN "reject"
    ELSE "accept"

\* PublishPlugin.run_accept(task_settings, item) of processing/plugin.py
processing_run_accept(H, plugin, task_settings, ty) ==
    LET out == hook_accept(H, plugin, task_settings, ty)
    IN IF out = "raise" THEN [accepted |-> FALSE, logged |-> TRUE]
       ELSE [accepted |-> out = "accept", logged |-> FALSE]

RECURSIVE create_tasks(_, _, _, _, _)
\* the tasks of an item of type ty in context ctx for the plugins from the
\* k-th on; oks[k]: build_settings_dict of plugin k does not raise.
\* [W, outs: what each plugin answered]
create_tasks(W, ctx, ty, oks, k) ==
    IF k > Len(TaskPlugins) THEN [W |-> W, outs |-> <<>>]
    ELSE LET p == TaskPlugins[k]
             miss == CacheMiss(W.heaps[p], SettingsCache_get(W.caches[p], ctx))
             r == init_task_settings(W.heaps[p], W.caches[p], ctx, ty, oks[k])
             a == processing_run_accept(r.H, p, r.ref, ty)
             W1 == [W EXCEPT !.heaps[p] = r.H, !.caches[p] = r.C,
                             !.tasks = IF a.accepted
                                       THEN Append(@, [plugin |-> p, ctx |-> ctx,
                                                       ty |-> ty, ref |-> r.ref])
                                       ELSE @]
             rest == create_tasks(W1, ctx, ty, oks, k + 1)
         IN [W |-> rest.W,
             outs |-> <<[plugin |-> p, miss |-> miss, ok |-> oks[k],
                         settings_false |-> IsFalse(r.H, r.ref),
                         accepted |-> a.accepted, logged |-> a.logged]>>
                      \o rest.outs]

\* the plugins are constructed, each resolving its settings or failing to
InitTasks ==
    /\ schemaEmpty \in BOOLEAN
    /\ \E ok \in [Range(TaskPlugins) -> BOOLEAN] :
          world = [heaps |-> [p \in Range(TaskPlugins) |-> PluginInit(ok[p]).H],
                   caches |-> [p \in Range(TaskPlugins) |-> PluginInit(ok[p]).C],
                   tasks |-> <<>>, calls |-> 0]
    /\ answer = [op |-> "none", ctx |-> BundleContext, ty |-> "ta",
                 outs |-> <<>>, before |-> 0]

\* the tasks of a new item are created
CreateTasks(ctx, ty, oks) ==
    /\ world.calls < MaxTasks
    /\ \E r \in {create_tasks(world, ctx, ty, oks, 1)} :
          /\ world' = [r.W EXCEPT !.calls = @ + 1]
          /\ answer' = [op |-> "create_tasks", ctx |-> ctx, ty |-> ty,
                        outs |-> r.outs, before |-> Len(world.tasks)]
    /\ UNCHANGED <<collectVars, phaseVars, settingsVars, hookVars, apiVars>>

(***************************************************************************)
(* PluginInstanceBase._validate_and_resolve_config                         *)
(* (api/plugins/instance_base.py) and the constructors of the setting      *)
(* classes (api/plugins/setting.py).  A schema is a function from setting  *)
(* names to [type, items]; a value is [kind: "none", "str", "list" or      *)
(* "dict"] with its elements or keys.                                      *)
(***************************************************************************)
SchemaNames == {"k1", "k2"}
SchemaEntries ==
    {[type |-> "str", items |-> {}], [type |-> "list", items |-> {}],
     [type |-> "dict", items |-> {}], [type |-> "dict", items |-> {"a"}]}
Schemas == UNION {[N -> SchemaEntries] : N \in SUBSET SchemaNames}

\* None as a setting value
NoneSetting == [kind |-> "none"]

\* the value the configuration holds for a schema entry
ConfiguredValue(schema) ==
    IF schema.type = "list" THEN [kind |-> "list", elems |-> <<"x", "y">>]
    ELSE IF schema.type = "dict" THEN [kind |-> "dict", keys |-> {"a", "b"}]
    ELSE [kind |-> "str", s |-> "x"]

\* a setting object: its value and the number of its children
SettingObject(value, n) == [value |-> value, children |-> n]

\* a factory that builds a plain PluginSetting whatever the type: for
\* comparison with create_typed_plugin_setting
create_untyped_plugin_setting(name, value, schema) ==
    [raised |-> NoExc, setting |-> SettingObject(value, 0)]

\* create_plugin_setting(name, value, schema) with the constructors it
\* calls: ListPluginSetting enumerates the value, DictPluginSetting reads
\* value[sub_key] of the declared items or value.iteritems()
create_typed_plugin_setting(name, value, schema) ==
    IF schema.type = "list"
    THEN IF value.kind = "none"
         THEN [raised |-> <<"TypeError", "enumerate">>,
               setting |-> SettingObject(value, 0)]
         ELSE [raised |-> NoExc, setting |-> SettingObject(value, Len(value.elems))]
    ELSE IF schema.type = "dict"
    THEN IF value.kind = "none"
         THEN [raised |-> IF schema.items # {} THEN <<"TypeError", "getitem">>
                          ELSE <<"AttributeError", "iteritems">>,
               setting |-> SettingObject(value, 0)]
         ELSE IF schema.items # {}
         THEN IF schema.items \subseteq value.keys
              THEN [raised |-> NoExc,
                    setting |-> SettingObject(value, Cardinality(schema.items))]
              ELSE [raised |-> <<"KeyError">>, setting |-> SettingObject(value, 0)]
         ELSE [raised |-> NoExc,
               setting |-> SettingObject(value, Cardinality(value.keys))]
    ELSE [raised |-> NoExc, setting |-> SettingObject(value, 0)]

\* self._configured_settings.get(setting_name)
configured_get(configured, setting_name) ==
    IF setting_name \in DOMAIN configured THEN configured[setting_name]
    ELSE NoneSetting

\* PluginInstanceBase._validate_and_resolve_config: resolves: whether
\* get_settings_for_context returns.  [raised: what leaves the
\* constructor, settings: self._settings when it completes, logged]
_validate_and_resolve_config(settings_schema, resolves) ==
    LET configured == IF resolves
                      THEN [n \in DOMAIN settings_schema |->
                               ConfiguredValue(settings_schema[n])]
                      ELSE <<>>
        made == [n \in DOMAIN settings_schema |->
                    create_typed_plugin_setting(
                        n, configured_get(configured, n), settings_schema[n])]
        raising == {n \in DOMAIN settings_schema : made[n].raised # NoExc}
    IN IF raising = {}
       THEN [raised |-> {NoExc}, logged |-> ~resolves,
             settings |-> [n \in DOMAIN settings_schema |-> made[n].setting]]
       ELSE \* the first entry of the loop that fails, in the order of the dict
            [raised |-> {made[n].raised : n \in raising}, logged |-> ~resolves,
             settings |-> <<>>]

\* the hook's schema
InitConstruct ==
    \E settings_schema \in Schemas :
       /\ world = [settings_schema |-> settings_schema, instances |-> 0]
       /\ answer = [op |-> "none", resolves |-> TRUE, raised |-> NoExc,
                    logged |-> FALSE, settings |-> <<>>]

\* a plugin instance of the hook is constructed for a context
ConstructInstance(resolves) ==
    /\ world.instances < MaxConstructed
    /\ \E r \in {_validate_and_resolve_config(world.settings_schema, resolves)} :
         \E raised \in r.raised :
            answer' = [op |-> "construct", resolves |-> resolves, raised |-> raised,
                       logged |-> r.logged, settings |-> r.settings]
    /\ world' = [world EXCEPT !.instances = @ + 1]
    /\ UNCHANGED <<collectVars, phaseVars, settingsVars, hookVars, apiVars>>

(***************************************************************************)
(* Specifications.                                                         *)
(***************************************************************************)
InitCollect == InitCollectVars /\ InitPhaseVars /\ IdleSettingsVars /\ IdleHookVars /\ IdleApiVars

NextCollect ==
    \/ \E file_paths \in PathLists : CollectFiles(file_paths)
    \/ \E sh \in OkShapes : CollectSession(sh)

\* collection into the tree of a freshly constructed manager
SpecCollect == InitCollect /\ [][NextCollect]_vars

InitPhase ==
    /\ pt = PhaseTree
    /\ fileHook = [p \in Paths |-> NoItems]
    /\ lastCall = NoCall
    /\ InitPhaseVars
    /\ IdleSettingsVars /\ IdleHookVars /\ IdleApiVars

NextPhase ==
    \/ \E ph \in Phases, kind \in GenKinds : StartPhase(ph, kind)
    \/ \E linked \in BOOLEAN, out \in HookOutcomes : ProcessTask(linked, out)
    \/ FinishPhase

\* a collector whose process_file hook raises for at least one path
InitCollectErr ==
    /\ pt = EmptyTree
    /\ fileHook \in {f \in [Paths -> Shapes] : \E p \in Paths : f[p].raises}
    /\ lastCall = NoCall
    /\ InitPhaseVars
    /\ IdleSettingsVars /\ IdleHookVars /\ IdleApiVars

NextCollectErr ==
    \/ \E file_paths \in PathLists : CollectFiles(file_paths)
    \/ \E sh \in Shapes \ OkShapes : CollectSession(sh)

\* collection with hooks that raise
SpecCollectErr == InitCollectErr /\ [][NextCollectErr]_vars

\* validate, publish and finalize runs over a collected tree
SpecPhase == InitPhase /\ [][NextPhase]_vars

\* the same, with a manager call that goes on once it was made: the
\* callback of the current task returns or raises, and the generator
\* answers send()
SpecPhaseFair ==
    /\ SpecPhase
    /\ WF_vars(\E linked \in BOOLEAN, out \in HookOutcomes : ProcessTask(linked, out))
    /\ WF_vars(FinishPhase)

\* the items of the trees the default generator is run on
GenItems == {1, 2, 3}

\* the tree of GenItems with parents par, active flags act, and the tasks
\* 1..MaxGenTasks, task k attached to item own[k] with active flag tact[k]
GenTree(par, act, own, tact) ==
    [items |-> GenItems,
     parent |-> par,
     persistent |-> [i \in GenItems |-> FALSE],
     path |-> [i \in GenItems |-> NoPath],
     active |-> act,
     context |-> [i \in GenItems |-> DefaultContext],
     tasks |-> [i \in GenItems |->
                  LET mine == SetToSeq({k \in 1..MaxGenTasks : own[k] = i})
                  IN [j \in 1..Len(mine) |->
                        [id |-> mine[j], plugin |-> "pa", active |-> tact[mine[j]]]]],
     nextItem |-> Cardinality(GenItems) + 1,
     nextTask |-> MaxGenTasks + 1,
     log |-> <<>>]

\* every tree over GenItems with MaxGenTasks tasks, any item or task
\* active or not (tasks are numbered in the order of their items)
GenTrees ==
    {GenTree(par, act, own, tact) :
        par \in {f \in [GenItems -> GenItems \cup {Root}] : \A i \in GenItems : f[i] < i},
        act \in [GenItems -> BOOLEAN],
        own \in {f \in [1..MaxGenTasks -> GenItems] :
                    \A a, b \in 1..MaxGenTasks : a < b => f[a] <= f[b]},
        tact \in [1..MaxGenTasks -> BOOLEAN]}

InitGen ==
    /\ pt \in GenTrees
    /\ fileHook = [p \in Paths |-> NoItems]
    /\ lastCall = NoCall
    /\ InitPhaseVars
    /\ IdleSettingsVars /\ IdleHookVars /\ IdleApiVars

NextGen ==
    \/ \E ph \in Phases : StartPhase(ph, "default")
    \/ \E linked \in BOOLEAN, out \in HookOutcomes : ProcessTask(linked, out)
    \/ FinishPhase

\* runs with the default task generator over trees of every shape
SpecGen == InitGen /\ [][NextGen]_vars

InitSettings ==
    /\ pt = EmptyTree
    /\ fileHook = [p \in Paths |-> NoItems]
    /\ lastCall = NoCall
    /\ InitPhaseVars
    /\ InitSettingsVars
    /\ IdleHookVars /\ IdleApiVars

NextSettings ==
    \/ \E ctx \in Contexts, ty \in AllItemTypes, ok \in BOOLEAN :
          InitTaskSettings(ctx, ty, ok)
    \/ \E k \in 1..MaxTasks, w \in Templates : AcceptOverwrites(k, w)

\* tasks of one constructed plugin get their settings and have them
\* overwritten by their accept hook
SpecSettings == InitSettings /\ [][NextSettings]_vars

\* the template name a direct caller of the cache writes
HeldWrites == {<<"node", "w1">>}

NextCache ==
    \/ \E ctx \in Contexts, ty \in ItemTypes, ok \in BOOLEAN :
          InitTaskSettings(ctx, ty, ok)
    \/ \E ctx \in Contexts : CacheGet(ctx)
    \/ \E k \in 1..Len(held), ty \in ItemTypes, w \in HeldWrites :
          MutateHeld(k, ty, w)

\* the same, with callers that read the settings cache themselves
SpecCache == InitSettings /\ [][NextCache]_vars

InitHook ==
    /\ pt = EmptyTree
    /\ fileHook = [p \in Paths |-> NoItems]
    /\ lastCall = NoCall
    /\ InitPhaseVars
    /\ IdleSettingsVars
    /\ InitHookVars
    /\ IdleUtilVars
    /\ IdleApiVars

NextHook ==
    \/ \E hook \in {"publish", "publish_files"}, a \in AttrResults : HookValidate(hook, a)
    \/ \E io \in PublishIO : HookPublish(io)

InitDict ==
    /\ pt = EmptyTree
    /\ fileHook = [p \in Paths |-> NoItems]
    /\ lastCall = NoCall
    /\ InitPhaseVars
    /\ IdleSettingsVars /\ IdleHookVars
    /\ InitDictVars
    /\ lookup = NoLookup
    /\ ctxOut = NoCtx

NextDict == \E value \in Dicts : SetValue(value)

\* the value of one dict setting is assigned again and again
SpecDict == InitDict /\ [][NextDict]_vars

InitResolve ==
    /\ pt = EmptyTree
    /\ fileHook = [p \in Paths |-> NoItems]
    /\ lastCall = NoCall
    /\ InitPhaseVars
    /\ IdleSettingsVars /\ IdleHookVars /\ IdleApiVars

NextResolve ==
    \E site \in ResolutionSites, list \in AppSettingsLists,
       instance_name \in InstanceNames \cup {OtherInstance} :
          Resolve(site, list, instance_name)

\* the app settings of contexts are resolved
SpecResolve == InitResolve /\ [][NextResolve]_vars

\* the collector hook does the same for every path
InitContext ==
    /\ pt = EmptyTree
    /\ fileHook \in {[p \in Paths |-> sh] : sh \in Shapes}
    /\ lastCall = NoCall
    /\ InitPhaseVars
    /\ IdleSettingsVars /\ IdleHookVars /\ IdleApiVars

NextContext ==
    \/ \E generation \in Generations, path \in Paths, opt \in HookOptions,
          has_ui \in BOOLEAN :
          WrapProcessFile(generation, path, opt, has_ui)
    \/ \E generation \in Generations, sh \in Shapes, opt \in HookOptions,
          has_ui \in BOOLEAN :
          WrapProcessSession(generation, sh, opt, has_ui)

\* the collector wrappers are called on the root item of a tree
SpecContext == InitContext /\ [][NextContext]_vars

\* the tree whose tasks are followed across the runs: one item and the
\* tasks _attach_plugins gives it
LifecycleTree ==
    LET S == HookCreates(EmptyTree, Root,
                         [tops |-> 1, nested |-> FALSE, raises |-> FALSE])
    IN Quiet(_attach_plugins(S, S.items))

InitLifecycle ==
    /\ pt = LifecycleTree
    /\ fileHook = [p \in Paths |-> NoItems]
    /\ lastCall = NoCall
    /\ InitRun
    /\ history = [t \in TaskIds(LifecycleTree) |-> Unvalidated]
    /\ IdleSettingsVars /\ IdleHookVars /\ IdleApiVars

(***************************************************************************)
(* Re-attachment.  The context of an item of a collected tree is changed   *)
(* and _attach_plugins is called on some of the items.                     *)
(***************************************************************************)
\* item.context = context
SetItemContext(i, context) ==
    /\ pt.context[i] # context
    /\ pt' = [pt EXCEPT !.context[i] = context]
    /\ lastCall' = [op |-> "context", paths |-> <<>>, new |-> <<i>>,
                    gone |-> {}, raised |-> FALSE, log |-> <<>>]
    /\ UNCHANGED <<fileHook, phaseVars, utilVars, settingsVars, hookVars, apiVars>>

\* manager._attach_plugins(items)
AttachPlugins(its) ==
    \E r \in {_attach_plugins(pt, its)} :
       /\ r.nextTask <= MaxTaskObjects + 1
       /\ pt' = Quiet(r)
       /\ lastCall' = [op |-> "_attach_plugins", paths |-> <<>>,
                       new |-> SetToSeq(its), gone |-> {},
                       raised |-> FALSE, log |-> r.log]
       /\ UNCHANGED <<fileHook, phaseVars, utilVars, settingsVars, hookVars, apiVars>>

NextAttach ==
    \/ \E i \in pt.items, context \in Contexts : SetItemContext(i, context)
    \/ \E its \in SUBSET pt.items \ {{}} : AttachPlugins(its)

\* contexts change and plugins are re-attached on a collected tree
SpecAttach == InitPhase /\ [][NextAttach]_vars

\* validate, publish and finalize are called in any order, any number of
\* times, each run to its end
SpecLifecycle == InitLifecycle /\ [][NextPhase]_vars

InitVersions ==
    /\ pt = EmptyTree
    /\ fileHook = [p \in Paths |-> NoItems]
    /\ lastCall = NoCall
    /\ InitPhaseVars
    /\ IdleSettingsVars /\ IdleApiVars
    /\ props = [path |-> "work", is_sequence |-> FALSE, sequence_paths |-> {},
                publish_path |-> NoPath, publish_symlink_path |-> NoPath,
                sg_publish_data_list |-> <<>>]
    /\ disk = {}
    /\ shotgun = [rows |-> {}, nextId |-> 1]
    /\ hookOut = NoHookCall
    /\ InitVersion

NextVersions ==
    \/ \E i \in VersionItems : GetPublishVersion(i)
    \/ \E i \in VersionItems : RegisterPublish(i)

\* the publish version of the items of a chain is computed and registered
SpecVersions == InitVersions /\ [][NextVersions]_vars

InitSaves ==
    /\ pt = EmptyTree
    /\ fileHook = [p \in Paths |-> NoItems]
    /\ lastCall = NoCall
    /\ InitPhaseVars
    /\ IdleSettingsVars /\ IdleApiVars
    /\ props = [path |-> "work", is_sequence |-> FALSE, sequence_paths |-> {},
                publish_path |-> NoPath, publish_symlink_path |-> NoPath,
                sg_publish_data_list |-> <<>>]
    /\ disk = {}
    /\ shotgun = [rows |-> {}, nextId |-> 1]
    /\ hookOut = NoHookCall
    /\ InitSave

NextSaves ==
    \/ \E impl \in SaveImpls, cb \in SaveCallbacks : SaveToNextVersion(impl, cb)
    \/ \E v \in 0..MaxVersion : SaveSessionAs(v)

\* the session file is bumped to its next version after publishes
SpecSaves == InitSaves /\ [][NextSaves]_vars

InitTaskInit ==
    /\ pt = EmptyTree
    /\ fileHook = [p \in Paths |-> NoItems]
    /\ lastCall = NoCall
    /\ InitPhaseVars
    /\ IdleApiVars
    /\ props = [path |-> "work", is_sequence |-> FALSE, sequence_paths |-> {},
                publish_path |-> NoPath, publish_symlink_path |-> NoPath,
                sg_publish_data_list |-> <<>>]
    /\ disk = {}
    /\ shotgun = [rows |-> {}, nextId |-> 1]
    /\ hookOut = NoHookCall
    /\ InitTasks
    /\ heap = <<>>
    /\ cache = [ctx \in Contexts |-> NoObj]
    /\ taskSettings = <<>>
    /\ held = <<>>
    /\ builds = NoBuilds

NextTaskInit ==
    \E ctx \in Contexts, ty \in AllItemTypes,
       oks \in [1..Len(TaskPlugins) -> BOOLEAN] : CreateTasks(ctx, ty, oks)

\* items get their tasks from plugins whose settings may not resolve
SpecTaskInit == InitTaskInit /\ [][NextTaskInit]_vars

InitConstructs ==
    /\ pt = EmptyTree
    /\ fileHook = [p \in Paths |-> NoItems]
    /\ lastCall = NoCall
    /\ InitPhaseVars
    /\ IdleSettingsVars /\ IdleApiVars
    /\ props = [path |-> "work", is_sequence |-> FALSE, sequence_paths |-> {},
                publish_path |-> NoPath, publish_symlink_path |-> NoPath,
                sg_publish_data_list |-> <<>>]
    /\ disk = {}
    /\ shotgun = [rows |-> {}, nextId |-> 1]
    /\ hookOut = NoHookCall
    /\ InitConstruct

NextConstructs == \E resolves \in BOOLEAN : ConstructInstance(resolves)

\* plugin instances are constructed, their settings resolving or not
SpecConstructs == InitConstructs /\ [][NextConstructs]_vars

\* one item is validated and published by the basic publish hooks
SpecHook == InitHook /\ [][NextHook]_vars


(***************************************************************************)
(* Claims on collection.                                                   *)
(***************************************************************************)
\* the items the collector hook creates for a path, by its shape
HookItemCount(path) ==
    fileHook[path].tops + (IF fileHook[path].nested THEN 1 ELSE 0)

\* C1: calling collect_files([p]) a second time, right after a first call
\* with the same path p, returns an empty list and adds no node to the
\* tree, so that len(first) + len(second) = len(first); the tree is left
\* as it was.
C1_CollectFilesIdempotentPerPath ==
    [][\A p \in Paths :
          (/\ lastCall.op = "collect_files"
           /\ lastCall.paths = <<p>>
           /\ CollectFiles(<<p>>))
          => /\ lastCall'.new = <<>>
             /\ Len(lastCall.new) + Len(lastCall'.new) = Len(lastCall.new)
             /\ pt'.items = pt.items
             /\ pt' = pt]_vars

\* C1 witness: collect_files([p]) returned nothing for a path p for which
\* the collector creates items, all items of the tree being those a
\* single collection of p created
C1_Witness ==
    \E p \in Paths :
        /\ lastCall.op = "collect_files" /\ lastCall.paths = <<p>>
        /\ lastCall.new = <<>>
        /\ HookItemCount(p) >= 2
        /\ p \in collected_files(pt)
        /\ Cardinality(pt.items) = HookItemCount(p)
        /\ pt.nextItem = HookItemCount(p) + 1
        /\ \A i \in pt.items : pt.path[i] = p

\* the items kept by collect_session: the persistent top-level items and
\* the items below them
KeptItems(S) == UNION {Subtree(S, i) : i \in persistent_items(S)}

\* C4: collect_session() removes from the tree every item that was in it
\* and was neither persistent nor below a persistent top-level item; every
\* persistent item stays in the tree, the same object at the same place,
\* with the same attached tasks and the same properties and flags.
C4_CollectSessionKeepsPersistent ==
    [][(/\ lastCall'.op = "collect_session"
        /\ \E sh \in Shapes : CollectSession(sh)) =>
          /\ \A i \in pt.items \ KeptItems(pt) :
                 i \notin pt'.items /\ i \notin Range(TreeIter(pt'))
          /\ \A i \in persistent_items(pt) :
                 /\ i \in persistent_items(pt') /\ i \in Range(TreeIter(pt'))
                 /\ pt'.tasks[i] = pt.tasks[i]
                 /\ pt'.path[i] = pt.path[i]
                 /\ pt'.active[i] = pt.active[i]
                 /\ i \notin Range(lastCall'.new)]_vars

\* C4 witness: a collect_session() that removed an item of an earlier
\* session collection, kept a persistent file item with its two tasks,
\* and collected a new item
C4_Witness ==
    /\ lastCall.op = "collect_session"
    /\ lastCall.gone # {}
    /\ lastCall.new # <<>>
    /\ \E i \in persistent_items(pt) :
          /\ pt.path[i] \in Paths
          /\ Len(pt.tasks[i]) = 2
          /\ \A g \in lastCall.gone : i < g

LogOf(log, who) == SelectSeq(log, LAMBDA x : x[1] = who)

\* the positions of the path list at which the path is p
Occurrences(fp, p) == {k \in 1..Len(fp) : fp[k] = p}

\* how often collect_files(fp) runs the process_file hook for path p from
\* the tree S: not when p is collected already; once when the hook creates
\* items, which makes p collected; else once per occurrence of p
HookRuns(S, fp, p) ==
    IF _path_already_collected(S, p) THEN 0
    ELSE IF HookItemCount(p) > 0 /\ Occurrences(fp, p) # {} THEN 1
    ELSE Cardinality(Occurrences(fp, p))

\* what run_accept leaves behind for the items `new` of a call: one logged
\* error per item for the plugin whose accept hook raises, no task of
\* that plugin, and the tasks of the plugins that accept
AcceptErrorsHandled(S, log, new) ==
    /\ Len(LogOf(log, "run_accept")) = Cardinality(new)
    /\ \A i \in new : \E k \in 1..Len(log) : log[k] = <<"run_accept", <<"pc", i>>>>
    /\ \A i \in S.items : \A k \in 1..Len(S.tasks[i]) : S.tasks[i][k].plugin # "pc"
    /\ \A i \in new : \E k \in 1..Len(S.tasks[i]) : S.tasks[i][k].plugin = "pa"

\* C11: run_accept, run_process_file and run_process_current_session do
\* not propagate an exception of their hook: the wrapper logs one error,
\* run_accept returns {"accepted": False} (no task is attached for the
\* plugin), the collection wrappers return None, no exception reaches the
\* caller of collect_files / collect_session, and the call goes on: the
\* items created are given their tasks and the remaining paths are
\* processed.
C11_WrappersSwallowHookErrors ==
    [][/\ \A fp \in PathLists :
            (/\ lastCall'.op = "collect_files"
             /\ lastCall'.paths = fp
             /\ CollectFiles(fp))
            => /\ ~lastCall'.raised
               /\ \A p \in Paths :
                     /\ Cardinality({k \in 1..Len(lastCall'.log) :
                            lastCall'.log[k] = <<"run_process_file", p>>})
                          = IF fileHook[p].raises THEN HookRuns(pt, fp, p) ELSE 0
                     /\ fileHook[p].raises =>
                            /\ run_process_file(pt, Root, p).ret = NoneVal
                            /\ ~run_process_file(pt, Root, p).raised
               /\ AcceptErrorsHandled(pt', lastCall'.log, Range(lastCall'.new))
               /\ Range(lastCall'.new) = pt'.items \ pt.items
               /\ \A i \in pt.items : run_accept(pt, "pc", i).ret = [accepted |-> FALSE]
       /\ \A sh \in Shapes :
            (/\ lastCall'.op = "collect_session"
             /\ CollectSession(sh))
            => /\ ~lastCall'.raised
               /\ Len(LogOf(lastCall'.log, "run_process_current_session"))
                     = IF sh.raises THEN 1 ELSE 0
               /\ sh.raises =>
                     /\ run_process_current_session(pt, Root, sh).ret = NoneVal
                     /\ ~run_process_current_session(pt, Root, sh).raised
               /\ AcceptErrorsHandled(pt', lastCall'.log, Range(lastCall'.new))
               /\ Cardinality(Range(lastCall'.new))
                     = sh.tops + (IF sh.nested THEN 1 ELSE 0)]_vars

\* C11 witness: a collect_files call over two paths whose first hook
\* raised after creating an item; the error and the errors of the accept
\* hook are logged, nothing was raised, and the items of both paths were
\* collected and given tasks
C11_Witness ==
    /\ lastCall.op = "collect_files" /\ Len(lastCall.paths) = 2
    /\ ~lastCall.raised
    /\ fileHook[lastCall.paths[1]].raises
    /\ ~fileHook[lastCall.paths[2]].raises
    /\ lastCall.log[1] = <<"run_process_file", lastCall.paths[1]>>
    /\ Len(LogOf(lastCall.log, "run_accept")) = 2
    /\ \E i, j \in Range(lastCall.new) :
          /\ pt.path[i] = lastCall.paths[1] /\ pt.path[j] = lastCall.paths[2]
          /\ Len(pt.tasks[i]) = 2 /\ Len(pt.tasks[j]) = 2

(***************************************************************************)
(* Reading a run back from its events.                                     *)
(***************************************************************************)
EvIdx(kinds) == {k \in 1..Len(events) : events[k].e \in kinds}

\* the tasks whose phase method was invoked, in order
Called ==
    LET c == SelectSeq(events, LAMBDA x : x.e = "call")
    IN [k \in 1..Len(c) |-> c[k].task]

\* the tasks the generator yielded, in order
Yielded ==
    LET y == SelectSeq(events, LAMBDA x : x.e \in {"next", "send"} /\ x.task # NoTask)
    IN [k \in 1..Len(y) |-> y[k].task]

\* the events of the callback started at index c: up to the next "send"
\* or to the end of the run
RECURSIVE SegmentEnd(_)
SegmentEnd(k) ==
    IF k >= Len(events) \/ events[k + 1].e \in {"send", "call", "post"} THEN k
    ELSE SegmentEnd(k + 1)

Segment(c) == SubSeq(events, c, SegmentEnd(c))

\* how the hook of the callback with events seg ended
HookRaised(seg) == \E k \in 1..Len(seg) : seg[k].e = "hook" /\ seg[k].val = <<"raise">>
HookPassed(seg) == \E k \in 1..Len(seg) : seg[k].e = "hook" /\ seg[k].val = <<"true">>

\* the failures of a validate run, read from what the hooks did: one entry
\* for every callback whose hook raised (with its exception) or did not
\* return true (with None)
RECURSIVE FailuresFrom(_)
FailuresFrom(k) ==
    IF k > Len(events) THEN <<>>
    ELSE IF events[k].e # "call" THEN FailuresFrom(k + 1)
    ELSE LET seg == Segment(k)
             t == events[k].task
         IN (IF HookRaised(seg) THEN <<<<t, Exc(t)>>>>
             ELSE IF HookPassed(seg) THEN <<>>
             ELSE <<<<t, NoneVal>>>>) \o FailuresFrom(k + 1)

PostCount == Cardinality(EvIdx({"post"}))

(***************************************************************************)
(* Claims on the execution phases.                                         *)
(***************************************************************************)

\* C2: validate() invokes validate on every task the generator yields, also
\* after earlier tasks raised or returned False; it never raises because of
\* a task, and it returns exactly one (task, error) tuple per failing task,
\* in order, and none for a passing task: error is the exception the hook
\* raised, or None when validation returned false without raising.
C2_ValidateCollectsEveryFailure ==
    phase = "validate" =>
        /\ result.kind # "raised"
        /\ failed = FailuresFrom(1)
        /\ pc = "done" =>
              /\ result = [kind |-> "returned", val |-> FailuresFrom(1)]
              /\ Called = Yielded

\* C2 witness: a finished validate run of at least three tasks, one of
\* which raised after an earlier task and before a later task that was
\* still validated, and passed; the raising task is the only failure
C2_Witness ==
    /\ phase = "validate" /\ pc = "done" /\ Len(Called) >= 3
    /\ \E a, b, c \in EvIdx({"call"}) :
          /\ a < b /\ b < c
          /\ HookRaised(Segment(b))
          /\ HookPassed(Segment(c))
    /\ Len(failed) = 1 /\ failed[1][2] # NoneVal

\* C3: in publish() and in finalize(), once the phase method of a task has
\* raised, no later task has its phase method invoked in that run, and the
\* exception the hook raised is the one that reaches the caller.
C3_PublishFinalizeAbortOnRaise ==
    phase \in {"publish", "finalize"} =>
        \A k \in EvIdx({"hook"}) :
            events[k].val = <<"raise">> =>
                /\ \A j \in EvIdx({"call", "send", "post", "hook"}) : j <= k
                /\ pc = "done"
                /\ result = [kind |-> "raised", val |-> Exc(events[k].task)]

\* C3 witness: a publish run with the default generator that stopped at
\* its second task, tasks being left to process
C3_Witness ==
    /\ phase = "publish" /\ pc = "done" /\ result.kind = "raised"
    /\ gen.kind = "default"
    /\ Len(Called) = 2
    /\ DefaultResume(pt, gen, FALSE).task # NoTask

\* what the callback of the phase returns for the callback events seg
ExpectedRet(ph, seg) ==
    IF ph # "validate" THEN NoneVal
    ELSE IF HookRaised(seg) THEN <<FALSE, Exc(seg[1].task)>>
    ELSE IF HookPassed(seg) THEN <<TRUE, NoneVal>>
    ELSE <<FALSE, NoneVal>>

\* the last index below k whose event is of one of the kinds, or 0
LastBefore(k, kinds) ==
    IF \E j \in EvIdx(kinds) : j < k
    THEN CHOOSE j \in EvIdx(kinds) : j < k /\ \A i \in EvIdx(kinds) : i < k => i <= j
    ELSE 0

\* the generator handshake of _process_tasks: every callback is on the
\* task the generator yielded last, and every send follows the callback
\* it reports on and comes before the next one
Handshake ==
    /\ \A k \in EvIdx({"call"}) :
          LET j == LastBefore(k, {"next", "send", "call"})
          IN j > 0 /\ events[j].e \in {"next", "send"}
                   /\ events[j].task = events[k].task
    /\ \A k \in EvIdx({"send"}) :
          LET c == LastBefore(k, {"next", "send", "call"})
          IN c > 0 /\ events[c].e = "call"

\* C6 as claimed: in validate, publish and finalize alike the value sent
\* into the generator after a task is a (success, error) pair
C6_Original ==
    /\ Handshake
    /\ \A k \in EvIdx({"send"}) : Len(events[k].val) = 2

\* C6 as amended: after each task the manager sends the return value of
\* the task callback into the generator - the pair (is_valid, error) in
\* validate, None in publish and finalize - the task the generator yields
\* in response is the next task processed, and the value for task k is
\* sent before task k+1 is processed.
C6_SendsCallbackReturnValue ==
    /\ Handshake
    /\ \A k \in EvIdx({"send"}) :
          events[k].val =
              ExpectedRet(phase, Segment(LastBefore(k, {"call"})))

\* C6 witness: a validate run sent (False, exception) for a task and then
\* processed the task yielded in response
C6_Witness ==
    /\ phase = "validate"
    /\ \E k \in EvIdx({"send"}), c \in EvIdx({"call"}) :
          /\ k < c
          /\ events[k].val[1] = FALSE /\ events[k].val[2] # NoneVal
          /\ events[k].task = events[c].task

\* C7: the post-phase hook matching the phase is invoked exactly once per
\* run that no exception aborted, as the last thing of the run and after
\* the last task; it is not invoked in a run an exception aborted, never
\* between tasks, and in validate also when tasks failed validation.
C7_PostPhaseHookOncePerSweep ==
    /\ PostCount <= 1
    /\ \A k \in EvIdx({"post"}) :
          /\ k = Len(events) /\ pc = "done"
          /\ phase = "validate" => events[k].val = <<"post_validate">>
          /\ phase = "publish" => events[k].val = <<"post_publish">>
          /\ phase = "finalize" => events[k].val = <<"post_finalize">>
    /\ pc = "done" => (PostCount = 1 <=> result.kind = "returned")
    /\ (pc = "done" /\ phase = "validate") => PostCount = 1

\* C7 witness: a finished validate run with a failed task, its post hook
\* invoked
C7_Witness ==
    /\ pc = "done" /\ phase = "validate" /\ failed # <<>>
    /\ PostCount = 1 /\ Len(Called) >= 2

\* C10: an exception raised by the validate, publish or finalize hook is
\* logged once by the wrapper and then reaches the caller: validate reports
\* it as (task, exception), publish and finalize end with it.
C10_RunWrappersReRaise ==
    \A k \in EvIdx({"hook"}) :
        events[k].val = <<"raise">> =>
            LET t == events[k].task
                seg == Segment(LastBefore(k, {"call"}))
            IN /\ Cardinality({j \in 1..Len(seg) :
                      seg[j].e = "log" /\ seg[j].val = Exc(t)}) = 1
               /\ \A j \in 1..Len(seg) : seg[j].e = "log" => seg[j].val = Exc(t)
               /\ IF phase = "validate"
                  THEN \E f \in 1..Len(failed) : failed[f] = <<t, Exc(t)>>
                  ELSE pc = "done" /\ result = [kind |-> "raised", val |-> Exc(t)]

\* C10 witness: a finalize run aborted by the exception of its hook
C10_Witness ==
    /\ phase = "finalize" /\ pc = "done"
    /\ result.kind = "raised"
    /\ \E k \in EvIdx({"hook"}) : result.val = Exc(events[k].task)

(***************************************************************************)
(* Claims on the default task generator.                                   *)
(***************************************************************************)
RECURSIVE ActiveTasksOf(_, _)
\* the active tasks of the items of the sequence its, item by item
ActiveTasksOf(S, its) ==
    IF its = <<>> THEN <<>>
    ELSE LET i == Head(its)
             mine == IF S.active[i]
                     THEN SelectSeq(S.tasks[i], LAMBDA t : t.active)
                     ELSE <<>>
         IN [k \in 1..Len(mine) |-> mine[k].id] \o ActiveTasksOf(S, Tail(its))

\* C9: with no task generator supplied, the tasks processed are exactly the
\* active tasks attached to active items, each once, items in tree
\* traversal order and tasks in attached order within an item; a run that
\* an exception aborted processed a prefix of them.
C9_DefaultGeneratorActiveTasksInTreeOrder ==
    (gen.kind = "default" /\ pc # "idle") =>
        LET want == ActiveTasksOf(pt, TreeIter(pt))
        IN /\ IsPrefix(Called, want)
           /\ (pc = "loop" /\ cur # NoTask) =>
                  /\ Len(Called) < Len(want)
                  /\ want[Len(Called) + 1] = cur
           /\ (pc = "loop" /\ cur = NoTask) => Called = want
           /\ (pc = "done" /\ result.kind = "returned") => Called = want

\* C9 witness: a finished run over a tree with an inactive item whose child
\* is active, an inactive task, and two tasks processed, a child's task
\* before the task of a later sibling of its parent
C9_Witness ==
    /\ gen.kind = "default" /\ pc = "done" /\ result.kind = "returned"
    /\ Len(Called) = 2 /\ Called[1] > Called[2]
    /\ \E i \in pt.items : ~pt.active[i]

(***************************************************************************)
(* Claims on task settings.                                                *)
(***************************************************************************)

C12_UndoNeverMasksRegistrationError ==
    (hookOut.op = "publish" /\ hookOut.register = "raise")
        => /\ hookOut.undo = "returned"
           /\ hookOut.raised = <<"register_publish", props.publish_path>>

DestinationOnDisk == \E f \in disk : f[1] = props.publish_path
\* Shotgun holds a publish of the publish path of the item
RecordExists == \E r \in shotgun.rows : r.path = props.publish_path
\* the last call was a validate that got past its settings and, for
\* publish_files.py, found the work files
ValidateReachedChecks ==
    /\ hookOut.op = "validate"
    /\ hookOut.attrs = "none"
    /\ hookOut.hook = "publish_files" =>
          IF props.is_sequence THEN props.sequence_paths # {}
          ELSE <<props.path, NoFrame>> \in disk
Warned == \E k \in 1..Len(hookOut.log) : hookOut.log[k][1] = "warning"

C14_Original ==
    ValidateReachedChecks =>
        /\ (RecordExists /\ ~DestinationOnDisk) => (hookOut.ret = TRUE /\ Warned)
        /\ DestinationOnDisk => hookOut.ret = FALSE

(***************************************************************************)
(* C14, as the hooks behave: validate returns True, logging a warning,     *)
(* when the only conflict is an earlier publish record; it returns False   *)
(* when a destination publish file is already on disk, for sequences and   *)
(* single files alike, except that hooks/basic/publish.py skips the disk   *)
(* check of an in place publish (publish path equal to the work path) and  *)
(* returns True for it.                                                    *)
(***************************************************************************)
C14_ValidateConflicts ==
    ValidateReachedChecks =>
        LET in_place == hookOut.hook = "publish" /\ props.publish_path = props.path
        IN /\ (RecordExists /\ ~DestinationOnDisk) => (hookOut.ret = TRUE /\ Warned)
           /\ (DestinationOnDisk /\ ~in_place) => hookOut.ret = FALSE
           /\ in_place => hookOut.ret = TRUE

\* publish.py validated an in place publish whose files are on disk, a
\* sequence
C14_Witness ==
    /\ ValidateReachedChecks
    /\ hookOut.hook = "publish" /\ props.publish_path = props.path
    /\ props.is_sequence /\ DestinationOnDisk
    /\ hookOut.ret = TRUE

(***************************************************************************)
(* C15: an error raised while collecting one path is scoped to that path:  *)
(* collect_files does not raise, processes every remaining path, and       *)
(* returns, marked and with their plugins attached, the items of the other *)
(* paths and the items the failing path created before its error.          *)
(***************************************************************************)
\* the plugins of the tasks of item i, in order
PluginsOf(S, i) == [k \in 1..Len(S.tasks[i]) |-> S.tasks[i][k].plugin]

C15_CollectErrorScopedToPath ==
    [][\A fp \in PathLists :
          (/\ lastCall'.op = "collect_files"
           /\ lastCall'.paths = fp
           /\ \E p \in Range(fp) : fileHook[p].raises /\ ~_path_already_collected(pt, p)
           /\ CollectFiles(fp)) =>
             /\ ~lastCall'.raised
             /\ \A p \in Range(fp) :
                   ~_path_already_collected(pt, p) =>
                      LET mine == {i \in Range(lastCall'.new) : pt'.path[i] = p}
                      IN /\ Cardinality(mine) = HookItemCount(p)
                         /\ mine \cap pt.items = {}
                         /\ \A i \in mine :
                               /\ pt'.persistent[i] <=> pt'.parent[i] = Root
                               /\ PluginsOf(pt', i) =
                                     IF pt'.parent[i] = Root THEN <<"pa", "pb">>
                                     ELSE <<"pa">>]_vars

\* a collect_files call over two paths, the hook of the first raising after
\* it created a top-level item and its child: the call returned these two,
\* stamped and with their tasks, and the item of the second path
C15_Witness ==
    /\ lastCall.op = "collect_files" /\ Len(lastCall.paths) = 2
    /\ ~lastCall.raised
    /\ fileHook[lastCall.paths[1]].raises /\ fileHook[lastCall.paths[1]].nested
    /\ lastCall.paths[2] # lastCall.paths[1]
    /\ Len(lastCall.new) = 3
    /\ \E i, j, k \in Range(lastCall.new) :
          /\ pt.parent[i] = Root /\ pt.parent[j] = i /\ pt.parent[k] = Root
          /\ pt.path[i] = lastCall.paths[1] /\ pt.path[j] = lastCall.paths[1]
          /\ pt.path[k] = lastCall.paths[2]
          /\ pt.persistent[i] /\ ~pt.persistent[j] /\ pt.persistent[k]
          /\ PluginsOf(pt, j) = <<"pa">> /\ PluginsOf(pt, k) = <<"pa", "pb">>

(***************************************************************************)
(* C16: after the value of a dict setting is assigned a dict with another  *)
(* key set, the keys of the setting (lookup, iteration, length) are        *)
(* exactly the new keys and no child of the old value remains; for both    *)
(* dict shapes, `items` and `values`, and any sequence of assignments.     *)
(***************************************************************************)
\* the last assignment gave the setting a value with another key set
KeySetChanged ==
    setOut.op = "set" /\ DOMAIN dictSetting.value # setOut.old_keys
\* no child was created before the last assignment
NoOldChild ==
    \A k \in setting_keys(dictSetting) :
        setting_getitem(dictSetting, k).made > setOut.old_made

C16_Original ==
    KeySetChanged =>
        /\ setOut.raised = NoExc
        /\ setting_keys(dictSetting) = DOMAIN dictSetting.value
        /\ setting_len(dictSetting) = Cardinality(DOMAIN dictSetting.value)
        /\ NoOldChild

(***************************************************************************)
(* C16, as the setting behaves: after such an assignment no child of the   *)
(* old value remains, for both shapes and any sequence of assignments.     *)
(* With a `values` schema the keys of the setting are exactly the new      *)
(* keys.  With an `items` schema the keys are those the schema declares,   *)
(* whatever else the new value holds; when the new value lacks a declared  *)
(* key the assignment raises KeyError, the value stays assigned, and the   *)
(* keys are some of the declared keys the new value has.                   *)
(***************************************************************************)
C16_KeysAfterReassignment ==
    KeySetChanged =>
        LET keys == setting_keys(dictSetting)
            new == DOMAIN dictSetting.value
            declared == dictSetting.items
        IN /\ NoOldChild
           /\ setting_len(dictSetting) = Cardinality(keys)
           /\ \A k \in keys : setting_getitem(dictSetting, k).value = dictSetting.value[k]
           /\ declared = {} => (setOut.raised = NoExc /\ keys = new)
           /\ (declared # {} /\ declared \subseteq new) =>
                 (setOut.raised = NoExc /\ keys = declared)
           /\ (declared # {} /\ ~(declared \subseteq new)) =>
                 (setOut.raised = <<"KeyError">> /\ keys \subseteq declared \cap new)

\* an `items` setting was assigned a value with a key its schema does not
\* declare: the assignment went through and the key is not a key of the
\* setting
C16_Witness ==
    /\ KeySetChanged
    /\ dictSetting.items # {}
    /\ setOut.raised = NoExc
    /\ setOut.old_made > 1
    /\ \E k \in DOMAIN dictSetting.value : k \notin setting_keys(dictSetting)

(***************************************************************************)
(* C20: with several instances of the app configured for a context, the    *)
(* resolution selects the instance named as the current app instance, and  *)
(* when none is, it raises TankError and fails in no other way.            *)
(***************************************************************************)
C20_InstanceSelectedByName ==
    (lookup.site # "none" /\ Len(lookup.list) > 1) =>
        IF \E k \in 1..Len(lookup.list) :
              lookup.list[k].app_instance = lookup.instance_name
        THEN /\ lookup.raised = NoExc
             /\ lookup.app_settings =
                   IF lookup.site = "get_raw_plugin_settings"
                   THEN <<"settings of", lookup.instance_name>>
                   ELSE [app_instance |-> lookup.instance_name,
                         settings |-> <<"settings of", lookup.instance_name>>]
        ELSE lookup.raised # NoExc /\ lookup.raised[1] = "TankError"

(***************************************************************************)
(* C17: on_context_changed is invoked exactly once for each item newly     *)
(* created by a collection call (process_file or process_current_session), *)
(* nested children included, before the wrapper returns, and not for an    *)
(* item that existed before.                                               *)
(***************************************************************************)
C17_ContextChangedOncePerNewItem ==
    ctxOut.op # "none" =>
        \A i \in 1..(pt.nextItem - 1) :
            Cardinality({k \in 1..Len(ctxOut.calls) : ctxOut.calls[k] = i})
                = IF i \in ctxOut.created THEN 1 ELSE 0

(***************************************************************************)
(* C18: iterating the publish tree yields every item of the tree once,     *)
(* parents before their children, and the same items in the same order     *)
(* when iterated again with no mutation in between; the iteration is a     *)
(* flattening of the current tree, so an item created in a nested          *)
(* collector call is in the snapshot collect_files takes right after it.   *)
(***************************************************************************)
\* list(tree) holds each item once, a parent before its children
IterationFlattens(S) ==
    LET it == TreeIter(S)
    IN /\ NoDuplicates(it)
       /\ Range(it) = S.items
       /\ \A a, b \in 1..Len(it) : S.parent[it[b]] = it[a] => a < b

TaskIdsOf(S, i) == {S.tasks[i][k].id : k \in 1..Len(S.tasks[i])}

\* the plugins configured for the context of item i whose accept hook
\* answers yes for it, in configured order
AcceptingPlugins(S, i) ==
    LET ps == load_publish_plugins(S.context[i])
        yes == {k \in 1..Len(ps) : AcceptHook(S, ps[k], i) = "accept"}
        ks == SetToSeq(yes)
    IN [j \in 1..Len(ks) |-> ps[ks[j]]]

C19_AttachReplacesTasks ==
    [][\A its \in SUBSET pt.items \ {{}} :
          (/\ lastCall'.op = "_attach_plugins"
           /\ Range(lastCall'.new) = its
           /\ AttachPlugins(its)) =>
             /\ \A i \in its :
                   /\ TaskIdsOf(pt', i) \cap TaskIds(pt) = {}
                   /\ PluginsOf(pt', i) = AcceptingPlugins(pt, i)
                   /\ Cardinality(TaskIdsOf(pt', i)) = Len(pt'.tasks[i])
             /\ \A i \in pt.items \ its : pt'.tasks[i] = pt.tasks[i]]_vars

\* _attach_plugins was called on an item that had tasks and whose context
\* had been changed since: it has the task of the other context now, a new
\* object, and an item that was not supplied still has its first tasks
C19_Witness ==
    /\ lastCall.op = "_attach_plugins"
    /\ \E i \in Range(lastCall.new), j \in pt.items \ Range(lastCall.new) :
          /\ pt.context[i] # DefaultContext
          /\ PhaseTree.tasks[i] # <<>>
          /\ PluginsOf(pt, i) = <<"pb">>
          /\ TaskIdsOf(pt, i) \cap TaskIds(PhaseTree) = {}
          /\ pt.tasks[j] = PhaseTree.tasks[j]
          /\ pt.tasks[j] # <<>>

(***************************************************************************)
(* C21: settings cache entries are deep-copied out on read: the object     *)
(* SettingsCache.get returns for a (plugin, context) key is never the      *)
(* stored object and shares no mutable state with it, so whatever is done  *)
(* to returned values, get returns a value equal to the one last added.    *)
(***************************************************************************)
\* the objects the cache holds: the stored settings and their dicts
StoredObjs(H, C) ==
    UNION {IF C[ctx] = NoObj THEN {}
           ELSE {C[ctx]} \cup (IF H[C[ctx]].kind = "settings"
                               THEN {H[C[ctx]].kids[ty] : ty \in ItemTypes}
                               ELSE {}) : ctx \in Contexts}

\* the claim as stated: no object got from the cache is a stored one, and
\* the stored settings hold the values that were added
C21_Original ==
    /\ \A k \in 1..Len(held) : held[k].ref \notin StoredObjs(heap, cache)
    /\ \A ctx \in Contexts :
          (cache[ctx] # NoObj /\ heap[cache[ctx]].kind = "settings") =>
             Baseline(heap, cache, ctx) = [ty \in ItemTypes |-> Resolved(ctx, ty)]

\* what the code does: get returns the stored object itself, so a write
\* through it is a write to the cache; the copies are made by add and by
\* init_task_settings, whose result is never an object of the cache
C21_CopyOnAddAndInTaskInit ==
    [][/\ \A ctx \in Contexts :
             CacheGet(ctx) => held'[Len(held')].ref = cache[ctx]
       /\ \A k \in 1..Len(held), ty \in ItemTypes, w \in HeldWrites :
             (MutateHeld(k, ty, w) /\ held[k].ref = cache[held[k].ctx]) =>
                Baseline(heap', cache', held[k].ctx)[ty] = w
       /\ \A ctx \in Contexts, ty \in ItemTypes, ok \in BOOLEAN :
             (Len(taskSettings') = Len(taskSettings) + 1
              /\ InitTaskSettings(ctx, ty, ok)) =>
                /\ taskSettings'[Len(taskSettings')].ref
                      \notin StoredObjs(heap', cache')
                /\ \A c \in Contexts :
                      cache'[c] = cache[c] =>
                         Baseline(heap', cache', c) = Baseline(heap, cache, c)]_vars

\* a caller got the stored settings of a context and wrote into them: the
\* cache now holds what it wrote, while a task created before still has
\* the value resolved for the context
C21_Witness ==
    \E k \in 1..Len(held), j \in 1..Len(taskSettings) :
        /\ held[k].ref = cache[held[k].ctx]
        /\ held[k].ref # NoObj
        /\ taskSettings[j].ctx = held[k].ctx
        /\ taskSettings[j].ty \in ItemTypes
        /\ Baseline(heap, cache, held[k].ctx)[taskSettings[j].ty] \in Templates
        /\ ReadTask(heap, taskSettings[j])[2]
              = Resolved(taskSettings[j].ctx, taskSettings[j].ty)

(***************************************************************************)
(* C22: settings are resolved once per (plugin, context) pair: over any    *)
(* sequence of plugin construction and init_task_settings calls, the       *)
(* settings of the plugin for a context are built by build_settings_dict   *)
(* at most once, every later call being served from the cache.             *)
(***************************************************************************)
C22_SettingsBuiltOncePerContext ==
    \A ctx \in Contexts : builds[ctx].done <= 1

(***************************************************************************)
(* C23: after every hook invocation made through a run_* wrapper, whether  *)
(* the hook returned or raised, the wrapper yields control to the event    *)
(* loop of the host (QCoreApplication.processEvents) exactly once before   *)
(* control goes back to the orchestrator.  Stated here on the wrappers of  *)
(* process_file and process_current_session.                               *)
(***************************************************************************)
C23_WrapperYieldsOnce ==
    ctxOut.op # "none" => ctxOut.yields = 1

(***************************************************************************)
(* C24: a phase ends at the generator boundary: when the task generator    *)
(* stops yielding (it is exhausted or yields a false value) no further     *)
(* task callback is invoked, the phase returns normally and its post-phase *)
(* hook still runs; so with a generator that yields finitely many tasks    *)
(* and hooks that return, validate / publish / finalize terminate, and     *)
(* with a generator that yields nothing no task is processed.              *)
(***************************************************************************)
\* the task callbacks invoked in the current run
Calls(evs) == {k \in 1..Len(evs) : evs[k].e = "call"}

C24_PhaseEndsAtGeneratorBoundary ==
    /\ [][(pc = "loop" /\ cur = NoTask) =>
             /\ pc' = "done"
             /\ result'.kind = "returned"
             /\ events' = Append(events, Ev("post", NoTask, <<PostHook(phase)>>))]_vars
    /\ []((pc = "done" /\ events[1].task = NoTask) =>
             (Calls(events) = {} /\ Len(events) = 2 /\ result.kind = "returned"))
    /\ (pc = "loop") ~> (pc = "done")

\* a caller-supplied generator stopped after its first task while the tree
\* holds more: one callback was invoked, then the post-phase hook, and the
\* call returned
C24_Witness ==
    /\ pc = "done"
    /\ gen.kind = "custom"
    /\ gen.n = 1
    /\ Cardinality(TaskIds(pt)) > 1
    /\ Cardinality(Calls(events)) = 1
    /\ events[Len(events)].e = "post"
    /\ result.kind = "returned"

(***************************************************************************)
(* C25: the publish version computed at validate is at least 1: for a      *)
(* top-level item it is the larger of the version in the item's fields (0  *)
(* when absent) and 1 + the highest version_number among the existing      *)
(* publishes of the same name and type (0 when none), so it is greater     *)
(* than every existing published version; every descendant gets exactly    *)
(* the version of its top-level ancestor; with a file at v001 and no       *)
(* existing publish the version is 1.                                      *)
(***************************************************************************)
\* the version in the fields of the top-level item, 0 when it has none
FileVersion(W) ==
    IF W.fields[1].has /\ W.fields[1].version # NoVersion
    THEN W.fields[1].version ELSE 0

C25_PublishVersion ==
    answer.op = "_get_publish_version" =>
        /\ answer.raised = NoExc
        /\ answer.value = Max({FileVersion(world), 1 + Max(answer.existing \cup {0})})
        /\ answer.value >= 1
        /\ \A v \in answer.existing : answer.value > v

(***************************************************************************)
(* C26: _save_to_next_version never overwrites an existing file: it        *)
(* invokes the save callback at most once, and only when the path has a    *)
(* version number, the next version path can be determined and nothing     *)
(* exists at that path (the callback is then handed that path); in every   *)
(* other case it saves nothing, leaves the disk as it was and returns      *)
(* None.                                                                   *)
(***************************************************************************)
\* the three conditions of the claim, on the call the answer records
MaySave(path_info, path, before) ==
    /\ path.version # NoVersion
    /\ get_next_version_path(path_info, path) # NoVersion
    /\ get_next_version_path(path_info, path) \notin before

C26_SaveNeverOverwrites ==
    answer.op = "_save_to_next_version" =>
        LET may == MaySave(world.path_info, answer.path, answer.before)
            next == get_next_version_path(world.path_info, answer.path)
        IN /\ answer.calls <= 1
           /\ answer.calls = 1 => may
           /\ (answer.calls = 1 /\ answer.raised = NoExc) =>
                 /\ answer.result = next
                 /\ world.disk = answer.before \cup {next}
           /\ ~may => /\ answer.calls = 0
                      /\ answer.result = NoVersion
                      /\ answer.raised = NoExc
           /\ answer.calls = 0 => world.disk = answer.before

\* a versioned session was saved as its next version beside older files
C26_Witness ==
    /\ answer.op = "_save_to_next_version"
    /\ answer.calls = 1
    /\ answer.raised = NoExc
    /\ answer.before # {}
    /\ answer.result \notin answer.before
    /\ answer.result \in world.disk

\* a session whose next version is on disk already was left alone
C26_WitnessExists ==
    /\ answer.op = "_save_to_next_version"
    /\ answer.path.version # NoVersion
    /\ get_next_version_path(world.path_info, answer.path) \in answer.before
    /\ answer.calls = 0

(***************************************************************************)
(* C27: if the settings of a plugin cannot be resolved for the item's      *)
(* context, or the hook's init_task_settings raises or finds no entry for  *)
(* the item's type, init_task_settings returns empty settings (nothing     *)
(* propagates), accept then answers accepted = False, no task is created   *)
(* for that plugin on that item, and the other plugins are still asked: a  *)
(* plugin gets a task exactly when its accept answered accepted.           *)
(***************************************************************************)
\* the tasks the last call created
CreatedTasks == SubSeq(world.tasks, answer.before + 1, Len(world.tasks))

\* the settings of the plugin do not come out: they are not cached and do
\* not resolve, the hook raises on them, or they hold no entry of the type
NoTaskSettings(o) ==
    \/ o.miss /\ ~o.ok
    \/ schemaEmpty
    \/ answer.ty \notin ItemTypes

C27_UnresolvedSettingsGiveNoTask ==
    answer.op = "create_tasks" =>
        /\ Len(answer.outs) = Len(TaskPlugins)
        /\ \A k \in 1..Len(answer.outs) :
              LET o == answer.outs[k]
                  mine == {j \in 1..Len(CreatedTasks) :
                              CreatedTasks[j].plugin = o.plugin}
              IN /\ o.plugin = TaskPlugins[k]
                 /\ NoTaskSettings(o) =>
                       /\ o.settings_false
                       /\ ~o.accepted
                       /\ mine = {}
                 /\ Cardinality(mine) = (IF o.accepted THEN 1 ELSE 0)
                 /\ (~NoTaskSettings(o) /\ ~o.logged) => o.accepted

\* the first plugin's settings did not resolve and the second got its task
C27_Witness ==
    /\ answer.op = "create_tasks"
    /\ ~schemaEmpty
    /\ answer.ty \in ItemTypes
    /\ answer.outs[1].miss /\ ~answer.outs[1].ok
    /\ ~answer.outs[1].accepted
    /\ answer.outs[2].accepted
    /\ Len(CreatedTasks) = 1
    /\ CreatedTasks[1].plugin = TaskPlugins[2]

(***************************************************************************)
(* C28: once collect_files has created a top-level item for a path p, p    *)
(* stays in collected_files and collect_files([p]) keeps returning an      *)
(* empty list after any number of later collect_session and collect_files  *)
(* calls on the same tree: a session re-collection never makes a collected *)
(* path collectable again.                                                 *)
(***************************************************************************)
\* the call of this step was a collect_files that created a top-level item
\* for path p
CreatedTopFor(p) ==
    /\ lastCall'.op = "collect_files"
    /\ \E k \in 1..Len(lastCall'.new) :
          /\ pt'.parent[lastCall'.new[k]] = Root
          /\ pt'.path[lastCall'.new[k]] = p

C28_CollectedPathStaysCollected ==
    [][\A p \in Paths :
          (p \in collected_files(pt) \/ CreatedTopFor(p))
          => /\ p \in collected_files(pt')
             /\ _path_already_collected(pt', p)
             /\ collect_files(pt', <<p>>).new = <<>>
             /\ collect_files(pt', <<p>>).S.items = pt'.items]_vars

\* a path was collected, then a session collection removed the items of
\* an earlier session collection and created new ones, and the path, for
\* which the collector would create items, is still held as collected
C28_Witness ==
    /\ lastCall.op = "collect_session"
    /\ lastCall.gone # {}
    /\ lastCall.new # <<>>
    /\ \E p \in collected_files(pt) :
          /\ HookItemCount(p) >= 1
          /\ collect_files(pt, <<p>>).new = <<>>
          /\ \E i \in persistent_items(pt) :
                pt.path[i] = p /\ \A g \in lastCall.gone : i < g

(***************************************************************************)
(* C29: if resolving the settings for the plugin's context raises during   *)
(* the construction of a plugin instance, the error is logged and the      *)
(* construction still completes: the instance ends with exactly one        *)
(* setting object per entry of its settings schema (list and dict typed    *)
(* entries included), each holding no configured value.                    *)
(***************************************************************************)
C29_ConstructionSurvivesUnresolvedSettings ==
    (answer.op = "construct" /\ ~answer.resolves) =>
        /\ answer.logged
        /\ answer.raised = NoExc
        /\ DOMAIN answer.settings = DOMAIN world.settings_schema
        /\ \A n \in DOMAIN answer.settings :
              /\ answer.settings[n].value = NoneSetting
              /\ answer.settings[n].children = 0

(***************************************************************************)
(* C30: after a publish whose registration failed, the item's properties   *)
(* hold no sg_publish_data_list: undo has attempted to delete every record *)
(* that was in the list, the records registered for the same item by       *)
(* tasks that published earlier in the run included; after a successful    *)
(* publish the list holds the new record appended after the earlier ones.  *)
(***************************************************************************)
\* the ids of the PublishedFile entities Shotgun holds
PublishedIds(sg) == {r.id : r \in sg.rows}

C30_PublishDataListAfterPublish ==
    [][\A io \in PublishIO :
          (hookOut'.op = "publish" /\ hookOut'.register # "not called"
              /\ HookPublish(io))
          => /\ hookOut'.register = "raise" =>
                   /\ props'.sg_publish_data_list = <<>>
                   /\ \A id \in Range(props.sg_publish_data_list) :
                         id \notin PublishedIds(shotgun') \/ id \in io.sg_delete_raises
             /\ hookOut'.register = "ok" =>
                   /\ props'.sg_publish_data_list
                         = Append(props.sg_publish_data_list, shotgun.nextId)
                   /\ shotgun.nextId \in PublishedIds(shotgun')]_vars

====
